---- MODULE Spec2Model ----
(***************************************************************************)
(* The XML serializer of xml5ever (src/xml5ever/src/serialize/mod.rs):     *)
(* the namespace prefix map, the character classifier, the escaping        *)
(* routines and the XmlSerializer event interface (start_elem, end_elem,   *)
(* write_text, write_comment, write_doctype, write_processing_instruction).*)
(*                                                                         *)
(* Representation.  A Rust string (str, String, Namespace, Prefix,         *)
(* LocalName) is the sequence of its characters' code points; the sink is  *)
(* the sequence of bytes written to it (UTF-8).  An Option<T> is a         *)
(* sequence of length 0 (None) or 1 (Some(x)).                             *)
(***************************************************************************)
EXTENDS Integers, Sequences, FiniteSets, TLC

\* The build the serializer runs in: TRUE when integer overflow is checked
\* (a debug build), so that += on a u32 at its top panics; FALSE when it
\* wraps (a release build).  It never changes during a run.
VARIABLE overflow_checks

\* ------------------------------------------------------------------------
\* Option<T>
\* ------------------------------------------------------------------------
None == <<>>
Some(x) == <<x>>
is_some(opt) == opt # <<>>
is_none(opt) == opt = <<>>

\* ------------------------------------------------------------------------
\* Atoms of markup5ever used by the serializer (ns!(..), namespace_prefix!(..))
\* ------------------------------------------------------------------------
\* ns!() : the empty namespace ""
NS_EMPTY == <<>>
\* ns!(xml) : "http://www.w3.org/XML/1998/namespace"
NS_XML == <<104, 116, 116, 112, 58, 47, 47, 119, 119, 119, 46, 119, 51, 46, 111, 114, 103, 47, 88, 77, 76, 47, 49, 57, 57, 56, 47, 110, 97, 109, 101, 115, 112, 97, 99, 101>>
\* ns!(xmlns) : "http://www.w3.org/2000/xmlns/"
NS_XMLNS == <<104, 116, 116, 112, 58, 47, 47, 119, 119, 119, 46, 119, 51, 46, 111, 114, 103, 47, 50, 48, 48, 48, 47, 120, 109, 108, 110, 115, 47>>
\* ns!(html) : "http://www.w3.org/1999/xhtml"
NS_HTML == <<104, 116, 116, 112, 58, 47, 47, 119, 119, 119, 46, 119, 51, 46, 111, 114, 103, 47, 49, 57, 57, 57, 47, 120, 104, 116, 109, 108>>
\* the string "xmlns"
STR_xmlns == <<120, 109, 108, 110, 115>>
\* the string "xml"
STR_xml == <<120, 109, 108>>

\* map_opt_atom: Option<Atom> to Atom, None becoming the empty atom
map_opt_atom(opt) == IF is_some(opt) THEN opt[1] ELSE <<>>

\* opt_eq: does the Option contain the value cmp
opt_eq(opt, cmp) == is_some(opt) /\ opt[1] = cmp

\* EqStr for Option<Atom>: Some(atom) with atom == other
eq_str(opt, other) == is_some(opt) /\ opt[1] = other

\* str::contains(char)
contains_char(str, c) == \E i \in 1..Len(str) : str[i] = c

\* str::contains(&str)
contains_str(str, pat) ==
  \E i \in 0..(Len(str) - Len(pat)) : SubSeq(str, i + 1, i + Len(pat)) = pat

\* str::ends_with(&str)
ends_with(str, pat) ==
  Len(str) >= Len(pat) /\ SubSeq(str, Len(str) - Len(pat) + 1, Len(str)) = pat

\* u8::to_ascii_lowercase on one code point
to_ascii_lowercase(c) == IF c >= 65 /\ c <= 90 THEN c + 32 ELSE c

\* str::eq_ignore_ascii_case
eq_ignore_ascii_case(a, b) ==
  /\ Len(a) = Len(b)
  /\ \A i \in 1..Len(a) : to_ascii_lowercase(a[i]) = to_ascii_lowercase(b[i])

\* The UTF-8 encoding of one char, as write_fmt("{}", c) and as_bytes() give it.
utf8(c) ==
  IF c < 128 THEN <<c>>
  ELSE IF c < 2048 THEN <<192 + (c \div 64), 128 + (c % 64)>>
  ELSE IF c < 65536
    THEN <<224 + (c \div 4096), 128 + ((c \div 64) % 64), 128 + (c % 64)>>
  ELSE <<240 + (c \div 262144), 128 + ((c \div 4096) % 64),
         128 + ((c \div 64) % 64), 128 + (c % 64)>>

\* str::as_bytes
RECURSIVE as_bytes(_)
as_bytes(str) ==
  IF str = <<>> THEN <<>> ELSE utf8(Head(str)) \o as_bytes(Tail(str))

\* ------------------------------------------------------------------------
\* u32 (the type of SerializeOpts.prefix_index): the two 16-bit halves of a
\* 32-bit unsigned integer, its value being hi * 65536 + lo
\* ------------------------------------------------------------------------
\* the u32 of a literal below 2^31
u32(n) == [hi |-> n \div 65536, lo |-> n % 65536]

\* u32::MAX, 4294967295
U32_MAX == [hi |-> 65535, lo |-> 65535]

\* n / 10 and n % 10, by long division over the two halves
u32_div10(n) ==
  [hi |-> n.hi \div 10, lo |-> ((n.hi % 10) * 65536 + n.lo) \div 10]

u32_mod10(n) == ((n.hi % 10) * 65536 + n.lo) % 10

\* n + 1 modulo 2^32: what += 1 stores when overflow is not checked
wrapping_add_1(n) ==
  IF n.lo < 65535 THEN [hi |-> n.hi, lo |-> n.lo + 1]
  ELSE IF n.hi < 65535 THEN [hi |-> n.hi + 1, lo |-> 0]
  ELSE [hi |-> 0, lo |-> 0]

\* format!("{}", n) for a u32: its decimal digits
RECURSIVE fmt_u32(_)
fmt_u32(n) ==
  IF n.hi = 0 /\ n.lo < 10 THEN <<48 + n.lo>>
  ELSE fmt_u32(u32_div10(n)) \o <<48 + u32_mod10(n)>>

\* is_void_element of markup5ever
is_void_element(local) ==
  local \in {
      <<97, 114, 101, 97>>,  \* area
      <<98, 97, 115, 101>>,  \* base
      <<98, 97, 115, 101, 102, 111, 110, 116>>,  \* basefont
      <<98, 103, 115, 111, 117, 110, 100>>,  \* bgsound
      <<98, 114>>,  \* br
      <<99, 111, 108>>,  \* col
      <<101, 109, 98, 101, 100>>,  \* embed
      <<102, 114, 97, 109, 101>>,  \* frame
      <<104, 114>>,  \* hr
      <<105, 109, 103>>,  \* img
      <<105, 110, 112, 117, 116>>,  \* input
      <<107, 101, 121, 103, 101, 110>>,  \* keygen
      <<108, 105, 110, 107>>,  \* link
      <<109, 101, 116, 97>>,  \* meta
      <<112, 97, 114, 97, 109>>,  \* param
      <<115, 111, 117, 114, 99, 101>>,  \* source
      <<116, 114, 97, 99, 107>>,  \* track
      <<119, 98, 114>>  \* wbr
  }

\* ------------------------------------------------------------------------
\* Character classifier (util/mod.rs)
\* ------------------------------------------------------------------------
is_xml_char(c) ==
  \/ c = 9 \/ c = 10 \/ c = 13
  \/ (c >= 32 /\ c <= 55295)          \* '\x20'..='\u{D7FF}'
  \/ (c >= 57344 /\ c <= 65533)       \* '\u{E000}'..='\u{FFFD}'
  \/ (c >= 65536 /\ c <= 1114111)     \* '\u{10000}'..='\u{10FFFF}'

is_name_start_char(c) ==
  \/ c = 58 \/ c = 95                 \* ':' | '_'
  \/ (c >= 97 /\ c <= 122)            \* 'a'..='z'
  \/ (c >= 65 /\ c <= 90)             \* 'A'..='Z'
  \/ (c >= 192 /\ c <= 214)           \* C0..D6
  \/ (c >= 216 /\ c <= 246)           \* D8..F6
  \/ (c >= 248 /\ c <= 767)           \* F8..2FF
  \/ (c >= 880 /\ c <= 893)           \* 370..37D
  \/ (c >= 895 /\ c <= 8191)          \* 37F..1FFF
  \/ (c >= 8204 /\ c <= 8205)         \* 200C..200D
  \/ (c >= 8304 /\ c <= 8591)         \* 2070..218F
  \/ (c >= 11264 /\ c <= 12271)       \* 2C00..2FEF
  \/ (c >= 12289 /\ c <= 55295)       \* 3001..D7FF
  \/ (c >= 63744 /\ c <= 64975)       \* F900..FDCF
  \/ (c >= 65008 /\ c <= 65533)       \* FDF0..FFFD
  \/ (c >= 65536 /\ c <= 983039)      \* 10000..EFFFF

is_name_char(c) ==
  \/ c = 58 \/ c = 95 \/ c = 45 \/ c = 46 \/ c = 183   \* ':' '_' '-' '.' B7
  \/ (c >= 97 /\ c <= 122)            \* 'a'..='z'
  \/ (c >= 65 /\ c <= 90)             \* 'A'..='Z'
  \/ (c >= 48 /\ c <= 57)             \* '0'..='9'
  \/ (c >= 192 /\ c <= 214)           \* C0..D6
  \/ (c >= 216 /\ c <= 246)           \* D8..F6
  \/ (c >= 248 /\ c <= 767)           \* F8..2FF
  \/ (c >= 880 /\ c <= 893)           \* 370..37D
  \/ (c >= 895 /\ c <= 8191)          \* 37F..1FFF
  \/ (c >= 8204 /\ c <= 8205)         \* 200C..200D
  \/ (c >= 8304 /\ c <= 8591)         \* 2070..218F
  \/ (c >= 11264 /\ c <= 12271)       \* 2C00..2FEF
  \/ (c >= 768 /\ c <= 879)           \* 0300..036F
  \/ (c >= 8255 /\ c <= 8256)         \* 203F..2040
  \/ (c >= 12289 /\ c <= 55295)       \* 3001..D7FF
  \/ (c >= 63744 /\ c <= 64975)       \* F900..FDCF
  \/ (c >= 65008 /\ c <= 65533)       \* FDF0..FFFD
  \/ (c >= 65536 /\ c <= 983039)      \* 10000..EFFFF

\* matches_rules(haystack, is_xml_char): every char of the string is an XML char
matches_rules_xml_char(haystack) ==
  \A i \in 1..Len(haystack) : is_xml_char(haystack[i])

\* ------------------------------------------------------------------------
\* NamespacePrefixMap: a function from Option<Namespace> keys to non-empty
\* sequences of prefixes (BTreeMap<Option<Namespace>, Vec<Prefix>>)
\* ------------------------------------------------------------------------
\* NamespacePrefixMap::default
NamespacePrefixMap_default == (Some(NS_XML) :> <<STR_xml>>)

\* NamespacePrefixMap::new
NamespacePrefixMap_new == [k \in {} |-> <<>>]

\* the loop of retrieve_preferred_prefix over a candidates list, from index i
\* with last_prefix already set
RECURSIVE scan_candidates(_, _, _, _)
scan_candidates(candidates_list, preferred_prefix, i, last_prefix) ==
  IF i > Len(candidates_list) THEN last_prefix
  ELSE IF candidates_list[i] = preferred_prefix THEN candidates_list[i]
  ELSE scan_candidates(candidates_list, preferred_prefix, i + 1, candidates_list[i])


\* retrieve_preferred_prefix answering the preferred prefix for a key the
\* map does not hold
retrieve_preferred_prefix_echo(map, ns, preferred_prefix) ==
  IF ns \in DOMAIN map
    THEN Some(scan_candidates(map[ns], preferred_prefix, 1, map[ns][1]))
    ELSE Some(preferred_prefix)

retrieve_preferred_prefix(map, ns, preferred_prefix) ==
  IF ns \in DOMAIN map
    THEN Some(scan_candidates(map[ns], preferred_prefix, 1, map[ns][1]))
    ELSE None

find_prefix(map, ns, prefix) ==
  IF ns \in DOMAIN map
    THEN \E i \in 1..Len(map[ns]) : map[ns][i] = prefix
    ELSE FALSE


\* add that does not append a prefix the list already holds
add_dedup(map, ns, prefix) ==
  IF find_prefix(map, ns, prefix) THEN map
  ELSE IF ns \in DOMAIN map
    THEN [map EXCEPT ![ns] = Append(@, prefix)]
    ELSE map @@ (ns :> <<prefix>>)

\* add that creates the list of a new key and does not push the prefix
add_empty_list(map, ns, prefix) ==
  IF ns \in DOMAIN map
    THEN [map EXCEPT ![ns] = Append(@, prefix)]
    ELSE map @@ (ns :> <<>>)

add(map, ns, prefix) ==
  IF ns \in DOMAIN map
    THEN [map EXCEPT ![ns] = Append(@, prefix)]
    ELSE map @@ (ns :> <<prefix>>)

\* ------------------------------------------------------------------------
\* Escaping routines.  Each returns [ok, out]: whether the call returned Ok
\* and the bytes it wrote to the sink before returning.
\* ------------------------------------------------------------------------

\* One iteration of the loop of write_escaped_text: the bytes the match
\* writes for the char c, and whether the iteration returns Err instead.
text_char_bytes(c) ==
  IF c = 38 THEN <<38, 97, 109, 112, 59>>            \* '&' => "&amp;"
  ELSE IF c = 62 THEN <<38, 103, 116, 59>>           \* '>' => "&gt;"
  ELSE IF c = 60 THEN <<38, 108, 116, 59>>           \* '<' => "&lt;"
  ELSE utf8(c)

text_char_fails(require_well_formed, c) ==
  c \notin {38, 62, 60} /\ require_well_formed /\ ~is_xml_char(c)

\* text_char_bytes without the arm for '>'
text_char_bytes_gt_raw(c) ==
  IF c = 38 THEN <<38, 97, 109, 112, 59>>
  ELSE IF c = 60 THEN <<38, 108, 116, 59>>
  ELSE utf8(c)

\* One iteration of the loop of serialize_attr_value.
attr_char_bytes(c) ==
  IF c = 38 THEN <<38, 97, 109, 112, 59>>            \* '&' => "&amp;"
  ELSE IF c = 62 THEN <<38, 103, 116, 59>>           \* '>' => "&gt;"
  ELSE IF c = 60 THEN <<38, 108, 116, 59>>           \* '<' => "&lt;"
  ELSE IF c = 34 THEN <<38, 113, 117, 111, 116, 59>> \* '"' => "&quot;"
  ELSE utf8(c)

attr_char_fails(require_well_formed, c) ==
  c \notin {38, 62, 60, 34} /\ require_well_formed /\ ~is_xml_char(c)

\* the bytes the iterations write for the chars of a string, in order
RECURSIVE text_bytes_gt_raw(_)
text_bytes_gt_raw(text) ==
  IF text = <<>> THEN <<>>
  ELSE text_char_bytes_gt_raw(Head(text)) \o text_bytes_gt_raw(Tail(text))

RECURSIVE text_bytes(_)
text_bytes(text) ==
  IF text = <<>> THEN <<>>
  ELSE text_char_bytes(Head(text)) \o text_bytes(Tail(text))

RECURSIVE attr_bytes(_)
attr_bytes(attr_value) ==
  IF attr_value = <<>> THEN <<>>
  ELSE attr_char_bytes(Head(attr_value)) \o attr_bytes(Tail(attr_value))

\* the chars the loop gets through: all of them, or those before the first
\* char whose iteration returns Err
chars_before(str, failing) ==
  IF failing = {} THEN str
  ELSE SubSeq(str, 1, (CHOOSE i \in failing : \A j \in failing : i <= j) - 1)

\* write_escaped_text without the arm for '>'
write_escaped_text_gt_raw(require_well_formed, text) ==
  LET failing == {i \in 1..Len(text) : text_char_fails(require_well_formed, text[i])}
  IN [ok |-> failing = {}, out |-> text_bytes_gt_raw(chars_before(text, failing))]

\* The loop runs over the chars in order and returns at the first iteration
\* that fails, the bytes of the earlier iterations being written.
write_escaped_text(require_well_formed, text) ==
  LET failing == {i \in 1..Len(text) : text_char_fails(require_well_formed, text[i])}
  IN [ok |-> failing = {}, out |-> text_bytes(chars_before(text, failing))]

\* the attribute value written by the text writer: without the arm for '"'
serialize_attr_value_as_text(require_well_formed, attr_value) ==
  write_escaped_text(require_well_formed, attr_value)

serialize_attr_value(require_well_formed, attr_value) ==
  LET failing ==
        {i \in 1..Len(attr_value) : attr_char_fails(require_well_formed, attr_value[i])}
  IN [ok |-> failing = {}, out |-> attr_bytes(chars_before(attr_value, failing))]

\* ------------------------------------------------------------------------
\* generate_prefix: "ns" + prefix_index, the index incremented, the pair
\* recorded in map.  Returns [panicked, prefix, map, prefix_index].
\* ------------------------------------------------------------------------
\* generate_prefix with the increment of the index left out
generate_prefix_stuck(map, new_namespace, prefix_index) ==
  LET generated_prefix == <<110, 115>> \o fmt_u32(prefix_index)
  IN [panicked |-> FALSE, prefix |-> generated_prefix,
      map |-> add(map, Some(new_namespace), generated_prefix),
      prefix_index |-> prefix_index]

\* opts.prefix_index is a u32: at u32::MAX the += 1 of line 160 panics in a
\* build that checks overflow, before map.add, the index left as it was,
\* and stores 0 in a build that does not
generate_prefix(map, new_namespace, prefix_index) ==
  LET generated_prefix == <<110, 115>> \o fmt_u32(prefix_index)          \* "ns{}"
  IN IF prefix_index = U32_MAX /\ overflow_checks
       THEN [panicked |-> TRUE, prefix |-> generated_prefix,
             map |-> map, prefix_index |-> prefix_index]
     ELSE [panicked |-> FALSE, prefix |-> generated_prefix,
           map |-> add(map, Some(new_namespace), generated_prefix),
           prefix_index |-> wrapping_add_1(prefix_index)]

\* ------------------------------------------------------------------------
\* recording_namespace_information: the scan of the element's attributes
\* for namespace declarations.  Returns [map, local_prefixes_map,
\* default_namespace_attr_value].
\* ------------------------------------------------------------------------
\* HashMap::insert
insert(hash_map, key, value) ==
  [k \in DOMAIN hash_map \cup {key} |-> IF k = key THEN value ELSE hash_map[k]]

\* HashMap::get
get(hash_map, key) == IF key \in DOMAIN hash_map THEN Some(hash_map[key]) ELSE None

\* LocalPrefixMap::new
LocalPrefixMap_new == [k \in {} |-> <<>>]

RECURSIVE recording_namespace_information_from(_, _, _, _, _)
recording_namespace_information_from(map, local_prefixes_map, default_namespace_attr_value, attrs, i) ==
  IF i > Len(attrs)
    THEN [map |-> map, local_prefixes_map |-> local_prefixes_map,
          default_namespace_attr_value |-> default_namespace_attr_value]
  ELSE
    LET attr == attrs[i]
        prefix_definition == attr.local
        namespace_definition ==
          IF attr.value = <<>> THEN None ELSE Some(attr.value)
    IN IF attr.ns # STR_xmlns                      \* attribute_namespace.eq_str("xmlns")
         THEN recording_namespace_information_from(
                map, local_prefixes_map, default_namespace_attr_value, attrs, i + 1)
       ELSE IF is_none(attr.prefix)
         THEN recording_namespace_information_from(
                map, local_prefixes_map, Some(attr.value), attrs, i + 1)
       ELSE IF attr.value = NS_XML
         THEN recording_namespace_information_from(
                map, local_prefixes_map, default_namespace_attr_value, attrs, i + 1)
       ELSE IF find_prefix(map, namespace_definition, prefix_definition)
         THEN recording_namespace_information_from(
                map, local_prefixes_map, default_namespace_attr_value, attrs, i + 1)
       ELSE recording_namespace_information_from(
              add(map, namespace_definition, prefix_definition),
              insert(local_prefixes_map, prefix_definition,
                     map_opt_atom(namespace_definition)),
              default_namespace_attr_value, attrs, i + 1)

recording_namespace_information(map, local_prefixes_map, attrs) ==
  recording_namespace_information_from(map, local_prefixes_map, None, attrs, 1)

\* ------------------------------------------------------------------------
\* serialize_elem_attrs.  The loop state st is [localname_set, map,
\* prefix_index, generated, out, panicked]; the result is [ok, panicked, map,
\* prefix_index, generated, out], panicked telling that generate_prefix
\* panicked, which ends the call without a return.  generated lists the prefixes generate_prefix returned
\* during the call, in order.
\* ------------------------------------------------------------------------
\* the test that skips an xmlns-namespace attribute with a prefix
\* (redefine_namespace)
redefine_namespace(prefix_map, local_prefixes_map, attr) ==
  IF is_some(attr.prefix)
    THEN LET local_name == attr.local
             ns_attr_value == Some(attr.value)
             found_in_local == get(local_prefixes_map, local_name)
             previously_defined == find_prefix(prefix_map, ns_attr_value, local_name)
             attr_local_not_in_local_pref_map == is_none(found_in_local)
             attr_local_in_already ==
               is_some(found_in_local) /\ found_in_local # ns_attr_value
         IN (attr_local_in_already \/ attr_local_not_in_local_pref_map)
              /\ previously_defined
    ELSE FALSE

\* the tail of the loop body: " ", the optional "prefix:", the check of the
\* local name, then local="value".  Returns [ok, out].
write_attr(require_well_formed, candidate_prefix, attr) ==
  LET head == <<32>> \o
              (IF is_some(candidate_prefix)
                 THEN as_bytes(candidate_prefix[1]) \o <<58>> ELSE <<>>)
      value == serialize_attr_value(require_well_formed, attr.value)
  IN IF require_well_formed
        /\ (\/ contains_char(attr.local, 58)
            \/ ~matches_rules_xml_char(attr.local)
            \/ (attr.local = STR_xmlns /\ attr.ns = NS_EMPTY))
       THEN [ok |-> FALSE, out |-> head]
     ELSE [ok |-> value.ok,
           out |-> head \o as_bytes(attr.local) \o <<61, 34>> \o value.out
                   \o (IF value.ok THEN <<34>> ELSE <<>>)]

\* the inline declaration written for an attribute outside the xmlns
\* namespace: " xmlns:" + generated prefix + "=\"" + escaped attr.1 + "\"".
\* Returns [ok, out].
write_generated_declaration(require_well_formed, generated_prefix, attr) ==
  LET value == serialize_attr_value(require_well_formed, attr.value)
  IN [ok |-> value.ok,
      out |-> <<32, 120, 109, 108, 110, 115, 58>> \o as_bytes(generated_prefix) \o <<61, 34>> \o value.out
              \o (IF value.ok THEN <<34>> ELSE <<>>)]

\* the duplicate test taking the local name alone as the key
duplicate_attr_local_only(require_well_formed, localname_set, attr) ==
  require_well_formed /\ \E t \in localname_set : t[2] = attr.local

\* the duplicate test at the head of the loop body: the (namespace, local
\* name) pair is already in localname_set
duplicate_attr(require_well_formed, localname_set, attr) ==
  require_well_formed /\ <<attr.ns, attr.local>> \in localname_set

\* one iteration of the loop.  Returns [ok, st].
serialize_attr(require_well_formed, prefix_map, local_prefixes_map, ignore_namespace_definition, st, attr) ==
  LET tuple == <<attr.ns, attr.local>>
      st1 == [st EXCEPT !.localname_set = @ \cup {tuple}]
      search_prefix == map_opt_atom(attr.prefix)
      looked_up == retrieve_preferred_prefix(st.map, Some(attr.ns), search_prefix)
      redeclare_xml_namespace == attr.value = NS_XML
      ignored_ns_def == ignore_namespace_definition /\ is_none(attr.prefix)
      gen == generate_prefix(st.map, attr.ns, st.prefix_index)
      decl == write_generated_declaration(require_well_formed, gen.prefix, attr)
      st_gen == [st1 EXCEPT !.map = gen.map, !.prefix_index = gen.prefix_index,
                            !.generated = Append(@, gen.prefix),
                            !.out = @ \o decl.out]
      finish(state, candidate_prefix) ==
        LET w == write_attr(require_well_formed, candidate_prefix, attr)
        IN [ok |-> w.ok, st |-> [state EXCEPT !.out = @ \o w.out]]
  IN IF duplicate_attr(require_well_formed, st.localname_set, attr)
       THEN [ok |-> FALSE, st |-> st]
     ELSE IF attr.ns = NS_EMPTY
       THEN finish(st1, None)
     ELSE IF attr.ns = NS_XMLNS
       THEN IF \/ redeclare_xml_namespace
               \/ ignored_ns_def
               \/ redefine_namespace(prefix_map, local_prefixes_map, attr)
              THEN [ok |-> TRUE, st |-> st1]                       \* continue
            ELSE IF require_well_formed
                    /\ (attr.value = NS_XMLNS \/ attr.value = NS_EMPTY)
              THEN [ok |-> FALSE, st |-> st1]
            ELSE finish(st1, Some(STR_xmlns))
     ELSE IF gen.panicked
       THEN [ok |-> FALSE, st |-> [st1 EXCEPT !.panicked = TRUE]]
     ELSE IF ~decl.ok
       THEN [ok |-> FALSE, st |-> st_gen]
     ELSE finish(st_gen, looked_up)

RECURSIVE serialize_elem_attrs_from(_, _, _, _, _, _, _)
serialize_elem_attrs_from(require_well_formed, prefix_map, local_prefixes_map, ignore_namespace_definition, attributes, i, st) ==
  IF i > Len(attributes)
    THEN [ok |-> TRUE, panicked |-> FALSE, map |-> st.map,
          prefix_index |-> st.prefix_index,
          generated |-> st.generated, out |-> st.out]
  ELSE LET r == serialize_attr(require_well_formed, prefix_map, local_prefixes_map,
                               ignore_namespace_definition, st, attributes[i])
       IN IF ~r.ok
            THEN [ok |-> FALSE, panicked |-> r.st.panicked, map |-> r.st.map,
                  prefix_index |-> r.st.prefix_index,
                  generated |-> r.st.generated, out |-> r.st.out]
          ELSE serialize_elem_attrs_from(
                 require_well_formed, prefix_map, local_prefixes_map,
                 ignore_namespace_definition, attributes, i + 1, r.st)

serialize_elem_attrs(require_well_formed, prefix_map, prefix_index, attributes, map, local_prefixes_map, ignore_namespace_definition) ==
  serialize_elem_attrs_from(
    require_well_formed, prefix_map, local_prefixes_map,
    ignore_namespace_definition, attributes, 1,
    [localname_set |-> {}, map |-> map, prefix_index |-> prefix_index,
     generated |-> <<>>, out |-> <<>>, panicked |-> FALSE])

\* the validation of lines 487-506 stopping after the first character
valid_local_name_first_only(local) ==
  /\ ~contains_char(local, 58)
  /\ (Len(local) >= 1 => is_name_start_char(local[1]))

\* ------------------------------------------------------------------------
\* start_elem
\* ------------------------------------------------------------------------
\* 3.2.1.1 point 1: the check of the local name under require_well_formed
valid_local_name(local) ==
  /\ ~contains_char(local, 58)
  /\ (Len(local) >= 1 => is_name_start_char(local[1]))
  /\ \A i \in 2..Len(local) : is_name_char(local[i])

\* 3.2.1.1 points 9 to 12: the match on inherited_ns.  Returns
\*   ok, name_out (the bytes of the qualified-name writes), decl_out (the bytes
\*   of the namespace declaration written after them), qualified_name (the
\*   String captured for the stack frame), map, prefix_index, generated,
\*   ignore_namespace_definition, inherited_ns (the local at the end),
\*   panicked (generate_prefix panicked: the call ends without a return).
resolve_elem_name(require_well_formed, context_namespace, prefix_index, name, map, local_prefixes_map, local_default_namespace) ==
  LET inherited_ns == context_namespace
      ns == name.ns
      prefix == name.prefix
      looked_up == retrieve_preferred_prefix(map, inherited_ns, map_opt_atom(prefix))
      candidate_prefix ==
        IF eq_str(prefix, STR_xmlns) THEN prefix ELSE looked_up
      \* "Found a suitable namespace prefix"
      qn1 == IF is_some(candidate_prefix)
               THEN candidate_prefix[1] \o <<58>> \o name.local ELSE <<>>
      inherited1 ==
        IF is_some(candidate_prefix) /\ is_some(local_default_namespace)
          THEN IF local_default_namespace[1] = NS_EMPTY THEN None
               ELSE IF local_default_namespace[1] # NS_XML
                 THEN local_default_namespace
               ELSE inherited_ns
          ELSE inherited_ns
      \* "Otherwise if prefix is not null then"
      regenerate == is_some(prefix) /\ prefix[1] \in DOMAIN local_prefixes_map
      gen == generate_prefix(map, ns, prefix_index)
      some_prefix == IF regenerate THEN gen.prefix ELSE prefix[1]
      value == serialize_attr_value(require_well_formed, ns)
      closing_quote == IF value.ok THEN <<34>> ELSE <<>>
  IN IF is_some(inherited_ns) /\ inherited_ns[1] = ns
       THEN LET qualified_name ==
                  IF ns = NS_XML THEN <<120, 109, 108, 58>> \o name.local ELSE name.local
            IN [panicked |-> FALSE, ok |-> TRUE, name_out |-> as_bytes(qualified_name),
                decl_out |-> <<>>, qualified_name |-> qualified_name,
                map |-> map, prefix_index |-> prefix_index, generated |-> <<>>,
                ignore_namespace_definition |-> is_some(local_default_namespace),
                inherited_ns |-> inherited_ns]
     ELSE IF eq_str(prefix, STR_xmlns) /\ require_well_formed
       THEN [panicked |-> FALSE, ok |-> FALSE, name_out |-> <<>>, decl_out |-> <<>>,
             qualified_name |-> <<>>, map |-> map,
             prefix_index |-> prefix_index, generated |-> <<>>,
             ignore_namespace_definition |-> FALSE,
             inherited_ns |-> inherited_ns]
     ELSE IF is_some(prefix) /\ regenerate /\ gen.panicked
       THEN [ok |-> FALSE, panicked |-> TRUE, name_out |-> as_bytes(qn1),
             decl_out |-> <<>>, qualified_name |-> qn1, map |-> map,
             prefix_index |-> prefix_index, generated |-> <<>>,
             ignore_namespace_definition |-> FALSE,
             inherited_ns |-> inherited1]
     ELSE IF is_some(prefix)
       THEN [panicked |-> FALSE, ok |-> value.ok,
             name_out |-> as_bytes(qn1)
                          \o as_bytes(qn1 \o some_prefix \o <<58>> \o name.local),
             decl_out |-> <<32, 120, 109, 108, 110, 115, 58>> \o as_bytes(some_prefix) \o <<61, 34>>
                          \o value.out \o closing_quote,
             qualified_name |-> qn1 \o some_prefix \o <<58>> \o name.local,
             map |-> add(IF regenerate THEN gen.map ELSE map, Some(ns), some_prefix),
             prefix_index |-> IF regenerate THEN gen.prefix_index ELSE prefix_index,
             generated |-> IF regenerate THEN <<gen.prefix>> ELSE <<>>,
             ignore_namespace_definition |-> FALSE,
             \* lines 607 to 609, not reached when line 604 returned Err
             inherited_ns |-> IF value.ok /\ is_some(local_default_namespace)
                                THEN local_default_namespace ELSE inherited1]
     ELSE IF \/ is_none(local_default_namespace)
             \/ (is_some(local_default_namespace)
                   /\ opt_eq(local_default_namespace, ns))
       THEN [panicked |-> FALSE, ok |-> value.ok,
             name_out |-> as_bytes(qn1) \o as_bytes(qn1 \o name.local),
             decl_out |-> <<32, 120, 109, 108, 110, 115, 61, 34>> \o value.out \o closing_quote,
             qualified_name |-> qn1 \o name.local,
             map |-> map, prefix_index |-> prefix_index, generated |-> <<>>,
             ignore_namespace_definition |-> TRUE,
             inherited_ns |-> Some(ns)]
     ELSE IF opt_eq(local_default_namespace, ns)
       THEN [panicked |-> FALSE, ok |-> TRUE,
             name_out |-> as_bytes(qn1) \o as_bytes(qn1 \o name.local),
             decl_out |-> <<>>,
             qualified_name |-> qn1 \o name.local,
             map |-> map, prefix_index |-> prefix_index, generated |-> <<>>,
             ignore_namespace_definition |-> FALSE,
             inherited_ns |-> Some(ns)]
     ELSE [panicked |-> FALSE, ok |-> TRUE, name_out |-> as_bytes(qn1), decl_out |-> <<>>,
           qualified_name |-> qn1,
           map |-> map, prefix_index |-> prefix_index, generated |-> <<>>,
           ignore_namespace_definition |-> FALSE,
           inherited_ns |-> inherited1]

\* ignore_children without the test of line 643 on the local name
ignore_children_any_leaf(name, leaf_node) == name.ns = NS_HTML /\ leaf_node

\* 3.2.1.1 points 14 to 16: the end of the open tag
ignore_children(name, leaf_node) ==
  name.ns = NS_HTML /\ leaf_node /\ is_void_element(name.local)

empty_node(name, leaf_node) == name.ns # NS_HTML /\ leaf_node

tag_end(name, leaf_node) ==
  IF ignore_children(name, leaf_node) THEN <<32, 47, 62>>          \* " /" ">"
  ELSE IF empty_node(name, leaf_node) THEN <<47, 62>>              \* "/" ">"
  ELSE <<62>>                                                      \* ">"

\* the scratch copy stored back into the options
prefix_map_after_start_stored(prefix_map, map) == map

\* The prefix map of the serializer's options once start_elem is over: the
\* scratch copy map is a local of the call and is dropped with it.
prefix_map_after_start(prefix_map, map) == prefix_map

\* start_elem from 3.2.1.1 point 14 on, el being what the match on
\* inherited_ns computed and at what serialize_elem_attrs returned: the end
\* of the open tag and the push of the frame.
start_elem_after_attrs(opts, name, leaf_node, el, at) ==
  IF ~at.ok
    THEN [ok |-> FALSE, panicked |-> at.panicked,
          out |-> <<60>> \o el.name_out \o el.decl_out \o at.out,
          prefix_index |-> at.prefix_index,
          prefix_map |-> prefix_map_after_start(opts.prefix_map, at.map),
          skip_end_tag |-> FALSE, pushed |-> None,
          name_out |-> el.name_out, decl_out |-> el.decl_out,
          map |-> at.map, generated |-> el.generated \o at.generated,
          inherited_ns |-> el.inherited_ns]
  ELSE [ok |-> TRUE, panicked |-> FALSE,
        out |-> <<60>> \o el.name_out \o el.decl_out \o at.out
                \o tag_end(name, leaf_node),
        prefix_index |-> at.prefix_index,
        prefix_map |-> prefix_map_after_start(opts.prefix_map, at.map),
        skip_end_tag |-> ignore_children(name, leaf_node),
        pushed |-> Some([skip_end_tag |-> ignore_children(name, leaf_node),
                         qualified_name |-> el.qualified_name]),
        name_out |-> el.name_out, decl_out |-> el.decl_out,
        map |-> at.map, generated |-> el.generated \o at.generated,
        inherited_ns |-> el.inherited_ns]

\* start_elem from 3.2.1.1 point 13 on, rec being what
\* recording_namespace_information returned and el what the match on
\* inherited_ns computed: the attribute pass, unless the match returned Err.
start_elem_after_name(opts, name, attributes, leaf_node, rec, el) ==
  IF ~el.ok
    THEN [ok |-> FALSE, panicked |-> el.panicked,
          out |-> <<60>> \o el.name_out \o el.decl_out,
          prefix_index |-> el.prefix_index,
          prefix_map |-> prefix_map_after_start(opts.prefix_map, el.map),
          skip_end_tag |-> FALSE, pushed |-> None,
          name_out |-> el.name_out, decl_out |-> el.decl_out,
          map |-> el.map, generated |-> el.generated,
          inherited_ns |-> el.inherited_ns]
  ELSE start_elem_after_attrs(
         opts, name, leaf_node, el,
         serialize_elem_attrs(
           opts.require_well_formed, opts.prefix_map, el.prefix_index,
           attributes, el.map, rec.local_prefixes_map,
           el.ignore_namespace_definition))

\* start_elem from 3.2.1.1 point 9 on, rec being what
\* recording_namespace_information returned
start_elem_after_recording(opts, name, attributes, leaf_node, rec) ==
  start_elem_after_name(
    opts, name, attributes, leaf_node, rec,
    resolve_elem_name(
      opts.require_well_formed, opts.context_namespace, opts.prefix_index,
      name, rec.map, rec.local_prefixes_map, rec.default_namespace_attr_value))

\* The whole of one start_elem call on a serializer with options opts and
\* field skip_end_tag.  Returns
\*   ok            the call returned Ok
\*   panicked      the call panicked (in generate_prefix) and did not return
\*   out           the bytes written to the sink
\*   prefix_index, prefix_map, skip_end_tag   the serializer's fields afterwards
\*   pushed        Some(ElemInfo) when a frame was pushed; its skip_end_tag
\*                 is the serializer's field of that name at the push
\*   name_out, decl_out, map, generated, inherited_ns   what the call computed
start_elem_call(opts, skip_end_tag, name, attributes, leaf_node) ==
  IF opts.require_well_formed /\ ~valid_local_name(name.local)
    THEN [ok |-> FALSE, panicked |-> FALSE, out |-> <<>>,
          prefix_index |-> opts.prefix_index,
          prefix_map |-> opts.prefix_map, skip_end_tag |-> skip_end_tag,
          pushed |-> None, name_out |-> <<>>, decl_out |-> <<>>,
          map |-> opts.prefix_map, generated |-> <<>>,
          inherited_ns |-> opts.context_namespace]
  ELSE start_elem_after_recording(
         opts, name, attributes, leaf_node,
         recording_namespace_information(
           opts.prefix_map, LocalPrefixMap_new, attributes))

\* ------------------------------------------------------------------------
\* end_elem
\* ------------------------------------------------------------------------
\* ElemInfo::default
ElemInfo_default == [skip_end_tag |-> FALSE, qualified_name |-> <<>>]

\* the top frame read without being removed
pop_or_default_keep(stack) ==
  IF stack = <<>>
    THEN [info |-> ElemInfo_default, stack |-> <<>>]
    ELSE [info |-> stack[Len(stack)], stack |-> stack]

\* self.stack.pop(), with the default ElemInfo when the stack is empty.
\* Returns [info, stack].
pop_or_default(stack) ==
  IF stack = <<>>
    THEN [info |-> ElemInfo_default, stack |-> <<>>]
    ELSE [info |-> stack[Len(stack)], stack |-> SubSeq(stack, 1, Len(stack) - 1)]

\* the bytes end_elem writes for the frame info
end_elem_out(info) ==
  IF info.skip_end_tag THEN <<>>
  ELSE <<60, 47>> \o as_bytes(info.qualified_name) \o <<62>>           \* "</" name ">"

\* ------------------------------------------------------------------------
\* write_comment, write_doctype, write_processing_instruction: [ok, out]
\* ------------------------------------------------------------------------

\* write_comment without the test of line 705 for a text ending with "-"
write_comment_call_no_trailing(require_well_formed, text) ==
  LET body == write_escaped_text(require_well_formed, text)
  IN IF require_well_formed /\ contains_str(text, <<45, 45>>)
       THEN [ok |-> FALSE, out |-> <<>>]
     ELSE [ok |-> body.ok,
           out |-> <<60, 33, 45, 45>> \o body.out \o (IF body.ok THEN <<45, 45, 62>> ELSE <<>>)]

write_comment_call(require_well_formed, text) ==
  LET body == write_escaped_text(require_well_formed, text)
  IN IF require_well_formed /\ (contains_str(text, <<45, 45>>) \/ ends_with(text, <<45>>))
       THEN [ok |-> FALSE, out |-> <<>>]
     ELSE [ok |-> body.ok,
           out |-> <<60, 33, 45, 45>> \o body.out \o (IF body.ok THEN <<45, 45, 62>> ELSE <<>>)]

write_doctype_call(text) ==
  [ok |-> TRUE, out |-> <<60, 33, 68, 79, 67, 84, 89, 80, 69, 32>> \o as_bytes(text) \o <<33, 62>>]

write_processing_instruction_call(require_well_formed, target, data) ==
  LET t == write_escaped_text(require_well_formed, target)
      d == write_escaped_text(require_well_formed, data)
  IN IF require_well_formed
        /\ (\/ eq_ignore_ascii_case(STR_xml, target)
            \/ contains_char(target, 58)
            \/ contains_str(data, <<63, 62>>))
       THEN [ok |-> FALSE, out |-> <<>>]
     ELSE IF ~t.ok THEN [ok |-> FALSE, out |-> <<60, 63>> \o t.out]
     ELSE IF ~d.ok THEN [ok |-> FALSE, out |-> <<60, 63>> \o t.out \o <<32>> \o d.out]
     ELSE [ok |-> TRUE, out |-> <<60, 63>> \o t.out \o <<32>> \o d.out \o <<63, 62>>]

\* ------------------------------------------------------------------------
\* The serializer as a state machine
\* ------------------------------------------------------------------------
VARIABLES
  writer,        \* the sink: every byte written so far
  opts,          \* SerializeOpts: require_well_formed, context_namespace,
                 \* prefix_map, prefix_index
  skip_end_tag,  \* XmlSerializer.skip_end_tag
  stack,         \* XmlSerializer.stack: Vec<ElemInfo>
  calls,         \* history: one record per call made on the serializer
  open_calls     \* history: for each frame of stack, the index in calls of
                 \* the start_elem that pushed it

vars == <<writer, opts, skip_end_tag, stack, calls, open_calls, overflow_checks>>

\* the number of calls made on one serializer
MaxCalls == 3

\* Inputs
STR_a == <<97>>
STR_p == <<112>>
STR_q == <<113>>
STR_l == <<108>>
STR_v == <<118>>
STR_hi == <<104, 105>>
NS_X == <<88>>
NS_Y == <<89>>

QualName(prefix, ns, local) == [prefix |-> prefix, ns |-> ns, local |-> local]
Attr(prefix, ns, local, value) ==
  [prefix |-> prefix, ns |-> ns, local |-> local, value |-> value]

\* a : no namespace, no prefix
N_a == QualName(None, NS_EMPTY, STR_a)
\* a in namespace X, no prefix
N_Xa == QualName(None, NS_X, STR_a)
\* p:a in namespace X
N_pXa == QualName(Some(STR_p), NS_X, STR_a)
\* br in the HTML namespace (a void element)
N_br == QualName(None, NS_HTML, <<98, 114>>)
\* div in the HTML namespace (not a void element)
N_div == QualName(None, NS_HTML, <<100, 105, 118>>)
\* a local name with a colon: "a:a"
N_colon == QualName(None, NS_EMPTY, <<97, 58, 97>>)
\* l="v" in namespace Y, no prefix
A_Yl == Attr(None, NS_Y, STR_l, STR_v)
\* xmlns:p="Y", the attribute's namespace being the string "xmlns"
A_decl_p == Attr(Some(STR_xmlns), STR_xmlns, STR_p, NS_Y)

\* the (name, attributes, leaf_node) triples start_elem is called with
StartInputs ==
  { <<N_a, <<>>, FALSE>>,
    <<N_Xa, <<>>, FALSE>>,
    <<N_Xa, <<>>, TRUE>>,
    <<N_Xa, <<A_Yl>>, FALSE>>,
    <<N_pXa, <<>>, FALSE>>,
    <<N_pXa, <<A_Yl>>, FALSE>>,
    <<N_pXa, <<A_decl_p>>, FALSE>>,
    <<N_br, <<>>, TRUE>>,
    <<N_br, <<>>, FALSE>>,
    <<N_div, <<>>, TRUE>>,
    <<N_colon, <<>>, FALSE>> }
Texts == {STR_hi}

\* SerializeOpts::default
SerializeOpts_default ==
  [require_well_formed |-> TRUE, context_namespace |-> None,
   prefix_map |-> NamespacePrefixMap_default, prefix_index |-> u32(1)]

\* The configurations a run starts from: the default one, one whose context
\* namespace is Y with Y bound to the prefix q in the prefix map and whose
\* prefix index starts at 9, and both without the well-formedness checks.
Configs ==
  { [SerializeOpts_default EXCEPT !.require_well_formed = w] : w \in BOOLEAN }
  \cup
  { [SerializeOpts_default EXCEPT
       !.require_well_formed = w,
       !.context_namespace = Some(NS_Y),
       !.prefix_map = add(NamespacePrefixMap_default, Some(NS_Y), STR_q),
       !.prefix_index = u32(9)]
    : w \in BOOLEAN }

\* XmlSerializer::new
Init ==
  /\ writer = <<>>
  /\ opts \in Configs
  /\ skip_end_tag = FALSE
  /\ stack = <<>>
  /\ calls = <<>>
  /\ open_calls = <<>>
  /\ overflow_checks \in BOOLEAN

\* the record of one call in the history
Call(op, input, res, popped, opener) ==
  [op |-> op, input |-> input, res |-> res,
   from |-> Len(writer), depth |-> Len(stack), stack |-> stack,
   prefix_map |-> opts.prefix_map, prefix_index |-> opts.prefix_index,
   open |-> open_calls, popped |-> popped, opener |-> opener]

\* a start_elem of the run panicked: the serializer is gone with the unwinding
Panicked ==
  \E k \in 1..Len(calls) : calls[k].op = "start_elem" /\ calls[k].res.panicked

start_elem(name, attrs, leaf_node) ==
  /\ Len(calls) < MaxCalls
  /\ ~Panicked
  /\ \E r \in {start_elem_call(opts, skip_end_tag, name, attrs, leaf_node)} :
        /\ writer' = writer \o r.out
        /\ opts' = [opts EXCEPT !.prefix_index = r.prefix_index,
                                !.prefix_map = r.prefix_map]
        /\ skip_end_tag' = r.skip_end_tag
        /\ stack' = IF is_some(r.pushed) THEN Append(stack, r.pushed[1]) ELSE stack
        /\ open_calls' = IF is_some(r.pushed)
                           THEN Append(open_calls, Len(calls) + 1) ELSE open_calls
        /\ calls' = Append(calls,
             Call("start_elem",
                  [name |-> name, attrs |-> attrs, leaf_node |-> leaf_node],
                  r, None, 0))
        /\ UNCHANGED overflow_checks

end_elem(name) ==
  /\ Len(calls) < MaxCalls
  /\ ~Panicked
  /\ \E p \in {pop_or_default(stack)} : \E out \in {end_elem_out(p.info)} :
        /\ writer' = writer \o out
        /\ stack' = p.stack
        /\ open_calls' = IF open_calls = <<>> THEN <<>>
                         ELSE SubSeq(open_calls, 1, Len(open_calls) - 1)
        /\ calls' = Append(calls,
             Call("end_elem", [name |-> name], [ok |-> TRUE, out |-> out],
                  IF stack = <<>> THEN None ELSE Some(p.info),
                  IF open_calls = <<>> THEN 0 ELSE open_calls[Len(open_calls)]))
        /\ UNCHANGED <<opts, skip_end_tag, overflow_checks>>

write_text(text) ==
  /\ Len(calls) < MaxCalls
  /\ ~Panicked
  /\ \E r \in {write_escaped_text(opts.require_well_formed, text)} :
        /\ writer' = writer \o r.out
        /\ calls' = Append(calls, Call("write_text", [text |-> text], r, None, 0))
        /\ UNCHANGED <<opts, skip_end_tag, stack, open_calls, overflow_checks>>

write_comment(text) ==
  /\ Len(calls) < MaxCalls
  /\ ~Panicked
  /\ \E r \in {write_comment_call(opts.require_well_formed, text)} :
        /\ writer' = writer \o r.out
        /\ calls' = Append(calls, Call("write_comment", [text |-> text], r, None, 0))
        /\ UNCHANGED <<opts, skip_end_tag, stack, open_calls, overflow_checks>>

write_doctype(text) ==
  /\ Len(calls) < MaxCalls
  /\ ~Panicked
  /\ \E r \in {write_doctype_call(text)} :
        /\ writer' = writer \o r.out
        /\ calls' = Append(calls, Call("write_doctype", [text |-> text], r, None, 0))
        /\ UNCHANGED <<opts, skip_end_tag, stack, open_calls, overflow_checks>>

write_processing_instruction(target, data) ==
  /\ Len(calls) < MaxCalls
  /\ ~Panicked
  /\ \E r \in {write_processing_instruction_call(opts.require_well_formed, target, data)} :
        /\ writer' = writer \o r.out
        /\ calls' = Append(calls,
             Call("write_processing_instruction",
                  [target |-> target, data |-> data], r, None, 0))
        /\ UNCHANGED <<opts, skip_end_tag, stack, open_calls, overflow_checks>>

Next ==
  \/ \E i \in StartInputs : start_elem(i[1], i[2], i[3])
  \/ \E name \in {N_a} : end_elem(name)
  \/ \E text \in Texts : write_text(text)
  \/ \E text \in Texts : write_comment(text)
  \/ \E text \in Texts : write_doctype(text)
  \/ \E target \in {STR_a}, data \in Texts : write_processing_instruction(target, data)

Spec == Init /\ [][Next]_vars

\* ------------------------------------------------------------------------
\* Runs whose prefix index starts at the top of u32: prefix_index is a pub
\* field of SerializeOpts, so a caller can hand any u32 to the serializer
\* ------------------------------------------------------------------------
ConfigsTop ==
  { [SerializeOpts_default EXCEPT !.require_well_formed = w, !.prefix_index = i]
    : w \in BOOLEAN, i \in {U32_MAX, [hi |-> 65535, lo |-> 65534]} }

InitTop ==
  /\ writer = <<>>
  /\ opts \in ConfigsTop
  /\ skip_end_tag = FALSE
  /\ stack = <<>>
  /\ calls = <<>>
  /\ open_calls = <<>>
  /\ overflow_checks \in BOOLEAN

SpecTop == InitTop /\ [][Next]_vars

\* ------------------------------------------------------------------------
\* Runs of start_elem and end_elem over more element names
\* ------------------------------------------------------------------------
\* the number of calls made on one serializer in these runs
MaxElemCalls == 2

\* "1a": the first character is not a name-start character
N_digit == QualName(None, NS_EMPTY, <<49, 97>>)
\* "-a": the first character is a name character, not a name-start character
N_dash == QualName(None, NS_EMPTY, <<45, 97>>)
\* "a a": a later character is not a name character
N_space == QualName(None, NS_EMPTY, <<97, 32, 97>>)
\* "a1": a later character is a name character, not a name-start character
N_a1 == QualName(None, NS_EMPTY, <<97, 49>>)
\* xmlns:a in namespace X and in namespace Y
N_xmlnsX == QualName(Some(STR_xmlns), NS_X, STR_a)
N_xmlnsY == QualName(Some(STR_xmlns), NS_Y, STR_a)

ElemNames ==
  {N_a, N_Xa, N_pXa, N_colon, N_digit, N_dash, N_space, N_a1, N_xmlnsX, N_xmlnsY}
ElemAttrs == {<<>>, <<A_Yl>>}

NextElem ==
  /\ Len(calls) < MaxElemCalls
  /\ \/ \E name \in ElemNames, attrs \in ElemAttrs, leaf_node \in BOOLEAN :
          start_elem(name, attrs, leaf_node)
     \/ \E name \in {N_a} : end_elem(name)

SpecElem == Init /\ [][NextElem]_vars

\* ------------------------------------------------------------------------
\* Runs without the well-formedness checks, over inputs the checks reject
\* ------------------------------------------------------------------------
\* the number of calls made on one serializer in these runs
MaxLaxCalls == 2

\* the string  & < > " U+001F a  (U+001F is not a valid XML character)
STR_nasty == <<38, 60, 62, 34, 31, 97>>
\* l="&<>"..." without namespace
A_nasty == Attr(None, NS_EMPTY, STR_l, STR_nasty)
\* an attribute whose local name holds a colon: l:l="v"
A_colon == Attr(None, NS_EMPTY, <<108, 58, 108>>, STR_v)
\* xmlns:p="" and xmlns:p="http://www.w3.org/2000/xmlns/" in the XMLNS namespace
A_undeclare == Attr(Some(STR_xmlns), NS_XMLNS, STR_p, <<>>)
A_xmlns_valued == Attr(Some(STR_xmlns), NS_XMLNS, STR_p, NS_XMLNS)
\* q:l="&<>"..." in namespace Y
A_Ynasty == Attr(Some(STR_q), NS_Y, STR_l, STR_nasty)

LaxNames == {N_a, N_colon, N_digit, N_xmlnsX}
LaxAttrs ==
  { <<A_nasty>>, <<A_nasty, A_nasty>>, <<A_colon>>, <<A_undeclare>>,
    <<A_xmlns_valued>>, <<A_Ynasty>> }
\* "a--b"
STR_a_dash_dash_b == <<97, 45, 45, 98>>
\* "?>"
STR_pi_end == <<63, 62>>

InitLax == Init /\ ~opts.require_well_formed

NextLax ==
  /\ Len(calls) < MaxLaxCalls
  /\ \/ \E name \in LaxNames, attrs \in LaxAttrs, leaf_node \in {FALSE} :
          start_elem(name, attrs, leaf_node)
     \/ \E name \in {N_a} : end_elem(name)
     \/ \E text \in {STR_nasty} : write_text(text)
     \/ \E text \in {STR_a_dash_dash_b, STR_nasty} : write_comment(text)
     \/ \E text \in {STR_nasty} : write_doctype(text)
     \/ \E target \in {STR_xml, <<97, 58, 97>>}, data \in {STR_pi_end, STR_nasty} :
          write_processing_instruction(target, data)

SpecLax == InitLax /\ [][NextLax]_vars

\* ------------------------------------------------------------------------
\* One call of the text writer or of the attribute-value writer on a new
\* serializer, over all short strings of an alphabet
\* ------------------------------------------------------------------------
\* the length of the longest string
MaxTextLen == 3

\* all strings over an alphabet of at most n characters
Strs(alphabet, n) == UNION { [1..k -> alphabet] : k \in 0..n }

\* & < > " a, U+001F (not a valid XML character), U+00E9 (two bytes in UTF-8)
EscChars == {38, 60, 62, 34, 97, 31, 233}
EscStrings == Strs(EscChars, MaxTextLen)

\* l=value without namespace
A_l(value) == Attr(None, NS_EMPTY, STR_l, value)

InitEsc == Init /\ opts.context_namespace = None

NextEsc ==
  /\ calls = <<>>
  /\ \/ \E text \in EscStrings : write_text(text)
     \/ \E value \in EscStrings : start_elem(N_a, <<A_l(value)>>, FALSE)

SpecEsc == InitEsc /\ [][NextEsc]_vars

\* ------------------------------------------------------------------------
\* One call of write_comment or of write_processing_instruction on a new
\* serializer
\* ------------------------------------------------------------------------
\* - a < : the comment texts are all the short strings over these
CommentChars == {45, 97, 60}
CommentTexts == Strs(CommentChars, MaxTextLen) \cup {STR_a_dash_dash_b}

\* xml, XmL, a, a:a
PiTargets == {STR_xml, <<88, 109, 76>>, STR_a, <<97, 58, 97>>}
\* the empty string, "?>", "hi", "<", "a?>a", "&"
PiData == {<<>>, STR_pi_end, STR_hi, <<60>>, <<97, 63, 62, 97>>, <<38>>}

NextMarkup ==
  /\ calls = <<>>
  /\ \/ \E text \in CommentTexts : write_comment(text)
     \/ \E target \in PiTargets, data \in PiData :
          write_processing_instruction(target, data)

SpecMarkup == InitEsc /\ [][NextMarkup]_vars

\* ------------------------------------------------------------------------
\* The prefix map of the options being built: NamespacePrefixMap::new or
\* ::default followed by calls of add
\* ------------------------------------------------------------------------
\* the number of add calls made on one map
MaxAdds == 3

AddKeys == {None, Some(NS_X), Some(NS_Y), Some(NS_XML)}
AddPrefixes == {STR_p, STR_q}

InitMap ==
  /\ writer = <<>>
  /\ opts \in { [SerializeOpts_default EXCEPT !.prefix_map = m] :
                  m \in {NamespacePrefixMap_new, NamespacePrefixMap_default} }
  /\ skip_end_tag = FALSE
  /\ stack = <<>>
  /\ calls = <<>>
  /\ open_calls = <<>>
  /\ overflow_checks \in BOOLEAN

\* NamespacePrefixMap::add on the prefix map of the options
NamespacePrefixMap_add(ns, prefix) ==
  /\ Len(calls) < MaxAdds
  /\ opts' = [opts EXCEPT !.prefix_map = add(@, ns, prefix)]
  /\ calls' = Append(calls,
       Call("add", [ns |-> ns, prefix |-> prefix], [ok |-> TRUE, out |-> <<>>], None, 0))
  /\ UNCHANGED <<writer, skip_end_tag, stack, open_calls, overflow_checks>>

NextMap == \E ns \in AddKeys, prefix \in AddPrefixes : NamespacePrefixMap_add(ns, prefix)

SpecMap == InitMap /\ [][NextMap]_vars

\* ------------------------------------------------------------------------
\* One start_elem on a new serializer, over names and attributes that touch
\* the namespace machinery
\* ------------------------------------------------------------------------
\* p:a and a in the XML namespace, xml:a in namespace X
N_pXML == QualName(Some(STR_p), NS_XML, STR_a)
N_XMLa == QualName(None, NS_XML, STR_a)
N_xmlX == QualName(Some(STR_xml), NS_X, STR_a)

\* attributes without namespace: l="v", v="v", p:l="hi" (the pair of l again),
\* 1l="v", "l l"="v", l1="v", xmlns="v"
A_plain_l == Attr(None, NS_EMPTY, STR_l, STR_v)
A_plain_v == Attr(None, NS_EMPTY, STR_v, STR_v)
A_plain_l_again == Attr(Some(STR_p), NS_EMPTY, STR_l, STR_hi)
A_1l == Attr(None, NS_EMPTY, <<49, 108>>, STR_v)
A_space == Attr(None, NS_EMPTY, <<108, 32, 108>>, STR_v)
A_l1 == Attr(None, NS_EMPTY, <<108, 49>>, STR_v)
A_xmlns_bare == Attr(None, NS_EMPTY, STR_xmlns, STR_v)
\* l="v" in namespace X; xml:l="v" in the XML namespace
A_Xl == Attr(None, NS_X, STR_l, STR_v)
A_xml_l == Attr(Some(STR_xml), NS_XML, STR_l, STR_v)
\* declarations whose namespace is the XMLNS namespace:
\* xmlns:p="Y", xmlns:xml="Y", xmlns="Y", xmlns:p=<XML namespace>
A_uri_decl_p == Attr(Some(STR_xmlns), NS_XMLNS, STR_p, NS_Y)
A_uri_decl_xml == Attr(Some(STR_xmlns), NS_XMLNS, STR_xml, NS_Y)
A_uri_default == Attr(None, NS_XMLNS, STR_xmlns, NS_Y)
A_uri_redeclare_xml == Attr(Some(STR_xmlns), NS_XMLNS, STR_p, NS_XML)
\* declarations whose namespace is the string "xmlns": xmlns:xml="Y", xmlns="Y"
A_decl_xml == Attr(Some(STR_xmlns), STR_xmlns, STR_xml, NS_Y)
A_default_Y == Attr(None, STR_xmlns, STR_xmlns, NS_Y)

NsNames == {N_a, N_Xa, N_pXa, N_pXML, N_XMLa, N_xmlX}
NsAttrs ==
  { <<>>, <<A_plain_l>>, <<A_1l>>, <<A_space>>, <<A_l1>>, <<A_colon>>,
    <<A_xmlns_bare>>, <<A_Yl>>, <<A_xml_l>>,
    <<A_uri_decl_p>>, <<A_uri_decl_xml>>, <<A_uri_default>>, <<A_uri_redeclare_xml>>,
    <<A_decl_p>>, <<A_decl_xml>>, <<A_default_Y>>,
    <<A_plain_l, A_plain_l_again>>, <<A_plain_l, A_plain_v>>, <<A_Yl, A_Xl>>,
    <<A_uri_redeclare_xml, A_uri_decl_p>> }

NextNs ==
  /\ calls = <<>>
  /\ \E name \in NsNames, attrs \in NsAttrs, leaf_node \in {FALSE} :
        start_elem(name, attrs, leaf_node)

SpecNs == Init /\ [][NextNs]_vars

\* ------------------------------------------------------------------------
\* Reading the history
\* ------------------------------------------------------------------------
\* the bytes a call wrote
written(c) == c.res.out

\* the prefix map and the prefix index of the options before the n-th call
\* (after the last call, for n = Len(calls) + 1)
MapAt(n) == IF n <= Len(calls) THEN calls[n].prefix_map ELSE opts.prefix_map
IndexAt(n) == IF n <= Len(calls) THEN calls[n].prefix_index ELSE opts.prefix_index

\* the (namespace key, prefix) pairs of a prefix map
Bindings(map) ==
  UNION { { <<k, map[k][i]>> : i \in 1..Len(map[k]) } : k \in DOMAIN map }

\* the run started from SerializeOpts::default()
DefaultConfig ==
  /\ opts.require_well_formed
  /\ opts.context_namespace = None
  /\ MapAt(1) = NamespacePrefixMap_default
  /\ IndexAt(1) = u32(1)

IsStart(c) == c.op = "start_elem"
IsEnd(c) == c.op = "end_elem"
\* the prefixes generate_prefix returned during a call
Generated(c) == IF IsStart(c) THEN c.res.generated ELSE <<>>

\* ========================================================================
\* Claims
\* ========================================================================

\* C1: with the default configuration, start_elem(a, no namespace, no prefix,
\* no attributes, not childless), write_text("hi"), end_elem leaves exactly
\* <a>hi</a> in the sink.
C1_ScenarioA ==
  ( /\ DefaultConfig
    /\ Len(calls) = 3
    /\ IsStart(calls[1])
    /\ calls[1].input = [name |-> N_a, attrs |-> <<>>, leaf_node |-> FALSE]
    /\ calls[2].op = "write_text" /\ calls[2].input.text = STR_hi
    /\ IsEnd(calls[3]) )
  => writer = <<60, 97, 62, 104, 105, 60, 47, 97, 62>>

\* C2: every end_elem that pops a frame which does not suppress the close tag
\* writes "</" + Q + ">", Q being the qualified-name text the matching
\* start_elem wrote to the sink right after "<".
C2_CloseMatchesOpen ==
  \A k \in 1..Len(calls) :
    (IsEnd(calls[k]) /\ is_some(calls[k].popped)
       /\ ~calls[k].popped[1].skip_end_tag)
    => written(calls[k])
         = <<60, 47>> \o calls[calls[k].opener].res.name_out \o <<62>>

\* C3: the stack depth is the number of successful start_elem calls minus the
\* number of end_elem calls when no end_elem met an empty stack; a successful
\* start_elem pushes exactly one frame, a failed one none, an end_elem on a
\* non-empty stack pops exactly one, and the four write calls leave the stack
\* alone.
C3_Depth ==
  (\A k \in 1..Len(calls) : IsEnd(calls[k]) => calls[k].depth > 0)
  => Len(stack) =
       Cardinality({k \in 1..Len(calls) : IsStart(calls[k]) /\ calls[k].res.ok})
       - Cardinality({k \in 1..Len(calls) : IsEnd(calls[k])})

C3_Step ==
  calls' # calls =>
    LET c == calls'[Len(calls')]
    IN /\ (IsStart(c) /\ c.res.ok
             => Len(stack') = Len(stack) + 1
                /\ SubSeq(stack', 1, Len(stack)) = stack)
       /\ (IsStart(c) /\ ~c.res.ok => stack' = stack)
       /\ (IsEnd(c) /\ stack # <<>>
             => stack' = SubSeq(stack, 1, Len(stack) - 1))
       /\ (c.op \in {"write_text", "write_comment", "write_doctype",
                     "write_processing_instruction"} => stack' = stack)

\* C3: in every reachable state the depth equation C3_Depth holds, and every
\* call changes the stack as C3_Step says: start_elem pushes one frame exactly
\* when it succeeds, end_elem pops one, the write calls change nothing.
C3_StackDiscipline == [](C3_Depth) /\ [][C3_Step]_vars

\* C3 witness: a run with a successful start_elem, a failed start_elem and an
\* end_elem that popped a frame.
C3_Witness ==
  /\ \E k \in 1..Len(calls) : IsStart(calls[k]) /\ calls[k].res.ok
  /\ \E k \in 1..Len(calls) : IsStart(calls[k]) /\ ~calls[k].res.ok
  /\ \E k \in 1..Len(calls) : IsEnd(calls[k]) /\ is_some(calls[k].popped)

\* C4: a child without prefix in the namespace its parent made the inherited
\* one (the parent, in that namespace, was opened without a prefix) gets no
\* namespace declaration for its name in its open tag.
C4_InheritedFromParent ==
  \A j \in 1..Len(calls) :
    (IsStart(calls[j]) /\ calls[j].res.ok /\ calls[j].open # <<>>) =>
      LET child == calls[j]
          parent == calls[child.open[Len(child.open)]]
      IN ( /\ is_none(parent.input.name.prefix)
           /\ parent.input.name.ns = child.input.name.ns
           /\ parent.res.inherited_ns = Some(child.input.name.ns)
           /\ is_none(child.input.name.prefix) )
         => child.res.decl_out = <<>>

\* C5: with the default configuration and prefix_index = 1, opening p:a in
\* namespace X with the single attribute l="v" in the unbound namespace Y
\* writes the declaration xmlns:ns1="Y" and the attribute as ns1:l="v".
C5_ScenarioD ==
  \A k \in 1..Len(calls) :
    ( /\ DefaultConfig
      /\ IsStart(calls[k])
      /\ calls[k].prefix_index = u32(1)
      /\ calls[k].input.name = N_pXa
      /\ calls[k].input.attrs = <<A_Yl>> )
    => /\ contains_str(written(calls[k]), <<32, 120, 109, 108, 110, 115, 58, 110, 115, 49, 61, 34, 89, 34>>)
       /\ contains_str(written(calls[k]), <<32, 110, 115, 49, 58, 108, 61, 34, 118, 34>>)

\* C6: a binding introduced while opening an element E is in the prefix map
\* every start_elem for a descendant of E consults.
C6_VisibleToDescendants ==
  \A j \in 1..Len(calls) :
    IsStart(calls[j]) =>
      \A n \in 1..Len(calls[j].open) :
        LET E == calls[calls[j].open[n]]
        IN (Bindings(E.res.map) \ Bindings(E.prefix_map))
             \subseteq Bindings(calls[j].prefix_map)

\* C7: once the end_elem matching an element E has returned, the prefix map
\* of the options, which the next start_elem consults, is the map that was
\* consulted when E was opened.
C7_NoLeak ==
  \A k \in 1..Len(calls) :
    (IsEnd(calls[k]) /\ calls[k].opener # 0) =>
      /\ MapAt(k + 1) = calls[calls[k].opener].prefix_map
      /\ \A j \in (k + 1)..Len(calls) :
           ( /\ IsStart(calls[j])
             /\ \A i \in (k + 1)..(j - 1) : ~IsStart(calls[i]) )
           => calls[j].prefix_map = calls[calls[k].opener].prefix_map

\* C7 witness: an element whose opening introduced a binding has been closed
\* and a start_elem was made after it.
C7_Witness ==
  \E k \in 1..Len(calls) :
    /\ IsEnd(calls[k]) /\ calls[k].opener # 0
    /\ LET E == calls[calls[k].opener]
       IN Bindings(E.res.map) # Bindings(E.prefix_map)
    /\ k < Len(calls) /\ IsStart(calls[k + 1])

\* the order of two u32 values
u32_le(a, b) == a.hi < b.hi \/ (a.hi = b.hi /\ a.lo <= b.lo)

\* the u32 that is n + k (k below 65536), None when n + k exceeds u32::MAX
checked_add(n, k) ==
  IF n.lo + k < 65536 THEN Some([hi |-> n.hi, lo |-> n.lo + k])
  ELSE IF n.hi < 65535 THEN Some([hi |-> n.hi + 1, lo |-> n.lo + k - 65536])
  ELSE None

\* C8: the prefix index never decreases; every prefix generation returns,
\* and a call that generates n prefixes returns "ns" + index,
\* "ns" + (index + 1), ... and leaves the index n higher (a call that
\* generates none leaves it unchanged); the first prefix generated under the
\* default configuration is ns1; no two prefixes generated in one run are
\* equal.
C8_Counter ==
  /\ \A k \in 1..Len(calls) :
       LET c == calls[k]
           g == Generated(c)
       IN /\ IsStart(c) => ~c.res.panicked
          /\ u32_le(IndexAt(k), IndexAt(k + 1))
          /\ checked_add(IndexAt(k), Len(g)) = Some(IndexAt(k + 1))
          /\ \A n \in 1..Len(g) :
               /\ is_some(checked_add(c.prefix_index, n - 1))
               /\ g[n] = <<110, 115>> \o fmt_u32(checked_add(c.prefix_index, n - 1)[1])
          /\ (DefaultConfig /\ c.prefix_index = u32(1) /\ g # <<>>) => g[1] = <<110, 115, 49>>
  /\ \A j, k \in 1..Len(calls) :
       \A m \in 1..Len(Generated(calls[j])), n \in 1..Len(Generated(calls[k])) :
         (j # k \/ m # n) => Generated(calls[j])[m] # Generated(calls[k])[n]

\* C8 witness: a call generated two prefixes and a later call of the same
\* run generated one more.
C8_Witness ==
  \E j, k \in 1..Len(calls) :
    j < k /\ Len(Generated(calls[j])) = 2 /\ Generated(calls[k]) # <<>>

\* C9: an end_elem made on an empty stack writes nothing, leaves the stack
\* empty and returns Ok.
C9_EndOnEmptyStack ==
  \A k \in 1..Len(calls) :
    (IsEnd(calls[k]) /\ calls[k].depth = 0) =>
      /\ written(calls[k]) = <<>>
      /\ calls[k].res.ok
      /\ (k = Len(calls) => stack = <<>>)

\* a successful start_elem of a childless element outside the HTML namespace
ChildlessNonVoid(c) ==
  /\ IsStart(c) /\ c.res.ok /\ c.input.leaf_node
  /\ c.input.name.ns # NS_HTML

\* C10: for a childless element outside the HTML namespace (so not a void
\* element), start_elem ends the open tag with "/>" not preceded by a space
\* and pushes a frame, and the matching end_elem pops that frame and writes
\* nothing.
C10_ChildlessSelfCloses ==
  /\ \A k \in 1..Len(calls) :
       ChildlessNonVoid(calls[k]) =>
         /\ ends_with(written(calls[k]), <<47, 62>>)
         /\ ~ends_with(written(calls[k]), <<32, 47, 62>>)
         /\ is_some(calls[k].res.pushed)
  /\ \A k \in 1..Len(calls) :
       (IsEnd(calls[k]) /\ calls[k].opener # 0
          /\ ChildlessNonVoid(calls[calls[k].opener]))
       => is_some(calls[k].popped) /\ written(calls[k]) = <<>>

\* the frames on the stack before the n-th call (after the last call, for
\* n = Len(calls) + 1)
StackAt(n) == IF n <= Len(calls) THEN calls[n].stack ELSE stack

\* a successful start_elem of a childless void element of the HTML namespace
ChildlessVoid(c) ==
  /\ IsStart(c) /\ c.res.ok /\ c.input.leaf_node
  /\ c.input.name.ns = NS_HTML /\ is_void_element(c.input.name.local)

\* C11: a successful start_elem of a childless void element of the HTML
\* namespace ends the open tag with " />" and pushes a frame whose
\* skip_end_tag is set, and the end_elem that pops that frame writes nothing;
\* a successful start_elem of any other element pushes a frame whose
\* skip_end_tag is false, whatever was opened before it.
C11_VoidElement ==
  /\ \A k \in 1..Len(calls) :
       (IsStart(calls[k]) /\ calls[k].res.ok) =>
         /\ is_some(calls[k].res.pushed)
         /\ StackAt(k + 1) = Append(StackAt(k), calls[k].res.pushed[1])
         /\ IF ChildlessVoid(calls[k])
              THEN /\ ends_with(written(calls[k]), <<32, 47, 62>>)
                   /\ calls[k].res.pushed[1].skip_end_tag
              ELSE ~calls[k].res.pushed[1].skip_end_tag
  /\ \A k \in 1..Len(calls) :
       (IsEnd(calls[k]) /\ calls[k].opener # 0
          /\ ChildlessVoid(calls[calls[k].opener]))
       => written(calls[k]) = <<>>

\* C11 witness: a childless br of the HTML namespace was opened and closed,
\* and the next call opened an element that is not a childless void element.
C11_Witness ==
  \E k \in 1..Len(calls) :
    /\ IsEnd(calls[k]) /\ calls[k].opener # 0
    /\ ChildlessVoid(calls[calls[k].opener])
    /\ k < Len(calls)
    /\ IsStart(calls[k + 1]) /\ calls[k + 1].res.ok
    /\ ~ChildlessVoid(calls[k + 1])

\* a local name the validation of start_elem rejects: it contains ":", or its
\* first character is not a name-start character, or a later character is not
\* a name character
InvalidLocal(local) ==
  \/ contains_char(local, 58)
  \/ local # <<>> /\ ~is_name_start_char(local[1])
  \/ \E i \in 2..Len(local) : ~is_name_char(local[i])

\* C12: when well-formedness is required, a start_elem whose local name
\* contains ":", or starts with a character that is not a name-start
\* character, or has a later character that is not a name character, returns
\* an error, writes no byte, and leaves the stack, the prefix map and the
\* prefix index as they were.
C12_BadLocalName ==
  \A k \in 1..Len(calls) :
    ( /\ IsStart(calls[k])
      /\ opts.require_well_formed
      /\ InvalidLocal(calls[k].input.name.local) )
    => /\ ~calls[k].res.ok
       /\ written(calls[k]) = <<>>
       /\ StackAt(k + 1) = StackAt(k)
       /\ MapAt(k + 1) = MapAt(k)
       /\ IndexAt(k + 1) = IndexAt(k)

\* C12 witness: with an open element on the stack, a start_elem for "a a",
\* whose only bad character is a later one, with an attribute that would
\* need a generated prefix.
C12_Witness ==
  /\ opts.require_well_formed
  /\ Len(calls) = 2
  /\ IsStart(calls[1]) /\ calls[1].res.ok
  /\ IsStart(calls[2]) /\ calls[2].input.name = N_space
  /\ calls[2].input.attrs = <<A_Yl>>
  /\ stack # <<>>

\* C13: when well-formedness is required, a start_elem whose element prefix
\* is "xmlns" returns an error and pushes no frame, whatever the element's
\* namespace and the context namespace.
C13_XmlnsPrefix ==
  \A k \in 1..Len(calls) :
    ( /\ IsStart(calls[k])
      /\ opts.require_well_formed
      /\ calls[k].input.name.prefix = Some(STR_xmlns) )
    => /\ ~calls[k].res.ok
       /\ is_none(calls[k].res.pushed)
       /\ StackAt(k + 1) = StackAt(k)

\* The escaping the specification describes: each character is written as
\* its entity when it is &, <, > (or ", in an attribute value) and as itself
\* (its UTF-8 bytes) otherwise.
entity(c, in_attr_value) ==
  IF c = 38 THEN <<38, 97, 109, 112, 59>>
  ELSE IF c = 60 THEN <<38, 108, 116, 59>>
  ELSE IF c = 62 THEN <<38, 103, 116, 59>>
  ELSE IF in_attr_value /\ c = 34 THEN <<38, 113, 117, 111, 116, 59>>
  ELSE utf8(c)

RECURSIVE escaped(_, _)
escaped(s, in_attr_value) ==
  IF s = <<>> THEN <<>>
  ELSE entity(s[1], in_attr_value) \o escaped(Tail(s), in_attr_value)

\* the bytes  local="value"  with the value escaped as an attribute value
attr_text(attr) ==
  as_bytes(attr.local) \o <<61, 34>> \o escaped(attr.value, TRUE) \o <<34>>

\* the call c returned Err (a start_elem that panicked did not return)
ReturnedErr(c) == ~c.res.ok /\ ~(IsStart(c) /\ c.res.panicked)

\* C14: without the well-formedness checks no call returns an error,
\* whatever its input; write_text writes its text with &, <, > replaced by
\* their entities; a start_elem that returns writes every attribute outside the XMLNS
\* namespace as local="value" with &, <, >, " of the value replaced by their
\* entities, and no < or > other than the two that delimit the tag.
C14_LaxNeverFails ==
  ~opts.require_well_formed =>
    \A k \in 1..Len(calls) :
      /\ ~ReturnedErr(calls[k])
      /\ calls[k].op = "write_text"
           => written(calls[k]) = escaped(calls[k].input.text, FALSE)
      /\ (IsStart(calls[k]) /\ calls[k].res.ok) =>
           /\ \A i \in 1..Len(calls[k].input.attrs) :
                calls[k].input.attrs[i].ns # NS_XMLNS
                => contains_str(written(calls[k]), attr_text(calls[k].input.attrs[i]))
           /\ \A n \in 2..Len(written(calls[k])) : written(calls[k])[n] # 60
           /\ \A n \in 1..(Len(written(calls[k])) - 1) : written(calls[k])[n] # 62

\* C14 witness: without the checks, a start_elem for xmlns:a with a twice
\* given attribute whose value holds & < > " and an invalid character,
\* followed by a processing instruction with target xml and data "?>".
C14_Witness ==
  /\ ~opts.require_well_formed
  /\ Len(calls) = 2
  /\ IsStart(calls[1]) /\ calls[1].input.name = N_xmlnsX
  /\ calls[1].input.attrs = <<A_nasty, A_nasty>>
  /\ calls[2].op = "write_processing_instruction"
  /\ calls[2].input = [target |-> STR_xml, data |-> STR_pi_end]

starts_with(bytes, pat) ==
  Len(bytes) >= Len(pat) /\ SubSeq(bytes, 1, Len(pat)) = pat

drop(bytes, n) == SubSeq(bytes, n + 1, Len(bytes))

\* Reading written bytes back: the four entities are replaced by their
\* characters and every other UTF-8 sequence is decoded to its character.
RECURSIVE unescape(_)
unescape(bytes) ==
  IF bytes = <<>> THEN <<>>
  ELSE IF starts_with(bytes, <<38, 97, 109, 112, 59>>)
    THEN <<38>> \o unescape(drop(bytes, 5))
  ELSE IF starts_with(bytes, <<38, 108, 116, 59>>)
    THEN <<60>> \o unescape(drop(bytes, 4))
  ELSE IF starts_with(bytes, <<38, 103, 116, 59>>)
    THEN <<62>> \o unescape(drop(bytes, 4))
  ELSE IF starts_with(bytes, <<38, 113, 117, 111, 116, 59>>)
    THEN <<34>> \o unescape(drop(bytes, 6))
  ELSE IF bytes[1] < 128
    THEN <<bytes[1]>> \o unescape(drop(bytes, 1))
  ELSE IF bytes[1] < 224
    THEN <<(bytes[1] - 192) * 64 + (bytes[2] - 128)>> \o unescape(drop(bytes, 2))
  ELSE IF bytes[1] < 240
    THEN <<(bytes[1] - 224) * 4096 + (bytes[2] - 128) * 64 + (bytes[3] - 128)>>
         \o unescape(drop(bytes, 3))
  ELSE <<(bytes[1] - 240) * 262144 + (bytes[2] - 128) * 4096
         + (bytes[3] - 128) * 64 + (bytes[4] - 128)>>
       \o unescape(drop(bytes, 4))

ValidXml(s) == \A i \in 1..Len(s) : is_xml_char(s[i])

\* the characters of s before its first character that is not a valid XML
\* character
ValidPrefix(s) ==
  LET i == CHOOSE n \in 1..Len(s) :
             ~is_xml_char(s[n]) /\ \A j \in 1..(n - 1) : is_xml_char(s[j])
  IN SubSeq(s, 1, i - 1)

\* the strings given to write_text and, as the value of the attribute l, to
\* start_elem
IsEscText(c) == c.op = "write_text"
IsEscAttr(c) ==
  IsStart(c) /\ Len(c.input.attrs) = 1 /\ c.input.attrs[1].local = STR_l
     /\ c.input.attrs[1].ns = NS_EMPTY

\* C15: for a string s of valid XML characters, write_text writes the
\* concatenation of its characters' images (& < > as entities, the others
\* as themselves) and the attribute-value writer the same with " as &quot;,
\* and reading the entities back gives s; when well-formedness is required
\* and s has a character that is not a valid XML character, the call returns
\* an error having written the escaped form of the characters before the
\* first such character and nothing after it.
C15_Escaping ==
  \A k \in 1..Len(calls) :
    /\ IsEscText(calls[k]) =>
         LET s == calls[k].input.text
         IN /\ ValidXml(s) =>
                 /\ calls[k].res.ok
                 /\ written(calls[k]) = escaped(s, FALSE)
                 /\ unescape(written(calls[k])) = s
            /\ (opts.require_well_formed /\ ~ValidXml(s)) =>
                 /\ ~calls[k].res.ok
                 /\ written(calls[k]) = escaped(ValidPrefix(s), FALSE)
    /\ IsEscAttr(calls[k]) =>
         LET s == calls[k].input.attrs[1].value
             open == <<32, 108, 61, 34>>
         IN /\ ValidXml(s) =>
                 /\ calls[k].res.ok
                 /\ ends_with(written(calls[k]), open \o escaped(s, TRUE) \o <<34, 62>>)
                 /\ unescape(escaped(s, TRUE)) = s
            /\ (opts.require_well_formed /\ ~ValidXml(s)) =>
                 /\ ~calls[k].res.ok
                 /\ ends_with(written(calls[k]), open \o escaped(ValidPrefix(s), TRUE))

\* C15 witness: under well-formedness, the text  < U+00E9 U+001F  has been
\* given to write_text (two valid characters, then an invalid one).
C15_Witness ==
  /\ opts.require_well_formed
  /\ Len(calls) = 1
  /\ IsEscText(calls[1])
  /\ calls[1].input.text = <<60, 233, 31>>
  /\ writer = <<38, 108, 116, 59, 195, 169>>

\* a comment text that holds "--" or ends with "-"
BadComment(text) == contains_str(text, <<45, 45>>) \/ ends_with(text, <<45>>)

\* C16 as stated: for a text that holds "--" or ends with "-", write_comment
\* returns an error and writes nothing when well-formedness is required, and
\* otherwise succeeds and writes "<!--", the text unchanged, "-->".
C16_CommentVerbatim ==
  \A k \in 1..Len(calls) :
    (calls[k].op = "write_comment" /\ BadComment(calls[k].input.text)) =>
      IF opts.require_well_formed
        THEN ~calls[k].res.ok /\ written(calls[k]) = <<>>
        ELSE /\ calls[k].res.ok
             /\ written(calls[k])
                  = <<60, 33, 45, 45>> \o as_bytes(calls[k].input.text) \o <<45, 45, 62>>

\* C16, amended: for a text that holds "--" or ends with "-", write_comment
\* returns an error and writes nothing when well-formedness is required, and
\* otherwise succeeds and writes "<!--", the text escaped as write_text
\* escapes it (& < > as entities), "-->"; for a--b that is <!--a--b-->.
C16_CommentEscaped ==
  \A k \in 1..Len(calls) :
    (calls[k].op = "write_comment" /\ BadComment(calls[k].input.text)) =>
      IF opts.require_well_formed
        THEN ~calls[k].res.ok /\ written(calls[k]) = <<>>
        ELSE /\ calls[k].res.ok
             /\ written(calls[k])
                  = <<60, 33, 45, 45>> \o escaped(calls[k].input.text, FALSE)
                      \o <<45, 45, 62>>
             /\ calls[k].input.text = STR_a_dash_dash_b
                  => written(calls[k]) = <<60, 33, 45, 45, 97, 45, 45, 98, 45, 45, 62>>

\* C16 witness: without the checks, write_comment was given "<-", which ends
\* with "-" and holds a character the text writer escapes.
C16_Witness ==
  /\ ~opts.require_well_formed
  /\ Len(calls) = 1
  /\ calls[1].op = "write_comment"
  /\ calls[1].input.text = <<60, 45>>
  /\ calls[1].res.ok

\* a processing instruction the writer is to reject
BadPi(target, data) ==
  \/ [i \in 1..Len(target) |-> to_ascii_lowercase(target[i])] = STR_xml
  \/ contains_char(target, 58)
  \/ contains_str(data, <<63, 62>>)

\* C17: (with well-formedness required, the checks being skipped without it)
\* write_processing_instruction returns an error and writes nothing when the
\* target is xml in any letter case, or holds ":", or the data holds "?>";
\* for every other target and data it writes "<?", the target, " ", the
\* data, "?>" with target and data unchanged.
C17_ProcessingInstruction ==
  \A k \in 1..Len(calls) :
    (calls[k].op = "write_processing_instruction" /\ opts.require_well_formed) =>
      IF BadPi(calls[k].input.target, calls[k].input.data)
        THEN ~calls[k].res.ok /\ written(calls[k]) = <<>>
        ELSE /\ calls[k].res.ok
             /\ written(calls[k])
                  = <<60, 63>> \o as_bytes(calls[k].input.target) \o <<32>>
                      \o as_bytes(calls[k].input.data) \o <<63, 62>>

\* the namespace keys that were passed to add
AddedKeys == { calls[k].input.ns : k \in {j \in 1..Len(calls) : calls[j].op = "add"} }

\* the prefixes that were added for a namespace key, in the order of the calls
Added(ns) ==
  LET sel == SelectSeq(calls, LAMBDA c : c.op = "add" /\ c.input.ns = ns)
  IN [i \in 1..Len(sel) |-> sel[i].input.prefix]

\* the keys and the prefixes the lookups are made with: those given to add,
\* the prefix xml and the empty prefix
LookupKeys == AddKeys
LookupPrefixes == AddPrefixes \cup {STR_xml, <<>>}

\* C18 as stated: for a key that was never passed to add, whatever the map
\* was constructed with, retrieve_preferred_prefix returns None for every
\* preferred prefix and find_prefix returns false for every prefix.
C18_NeverAdded ==
  \A ns \in LookupKeys \ AddedKeys : \A prefix \in LookupPrefixes :
    /\ retrieve_preferred_prefix(opts.prefix_map, ns, prefix) = None
    /\ ~find_prefix(opts.prefix_map, ns, prefix)

\* C18, amended: for a key that was never passed to add, other than the XML
\* namespace in a map made by NamespacePrefixMap::default,
\* retrieve_preferred_prefix returns None for every preferred prefix and
\* find_prefix returns false for every prefix; for the XML namespace in a
\* map made by default, retrieve_preferred_prefix returns the seeded prefix
\* xml and find_prefix is true for xml only.
C18_NeverAddedButSeed ==
  \A ns \in LookupKeys \ AddedKeys : \A prefix \in LookupPrefixes :
    IF ns = Some(NS_XML) /\ MapAt(1) = NamespacePrefixMap_default
      THEN /\ retrieve_preferred_prefix(opts.prefix_map, ns, prefix) = Some(STR_xml)
           /\ find_prefix(opts.prefix_map, ns, prefix) <=> prefix = STR_xml
      ELSE /\ retrieve_preferred_prefix(opts.prefix_map, ns, prefix) = None
           /\ ~find_prefix(opts.prefix_map, ns, prefix)

\* C18 witness: a map made by default, after two add calls, none of them for
\* the absent namespace or for the XML namespace.
C18_Witness ==
  /\ MapAt(1) = NamespacePrefixMap_default
  /\ Len(calls) = 2 /\ calls[1].op = "add" /\ calls[2].op = "add"
  /\ None \notin AddedKeys
  /\ Some(NS_XML) \notin AddedKeys

\* does p occur in the list?
Occurs(p, list) == \E i \in 1..Len(list) : list[i] = p

\* the candidate list the map holds for a key (empty for a key it does not hold)
ListOf(map, ns) == IF ns \in DOMAIN map THEN map[ns] ELSE <<>>

\* C19 as stated: after any add calls, find_prefix(ns, p) is true iff p was
\* added for ns; retrieve_preferred_prefix(ns, preferred) returns preferred
\* when it occurs anywhere in the list of ns and otherwise the prefix added
\* last for ns; every add appends one entry to the list of its key and leaves
\* the other lists alone (the list of ns ends with the prefixes added for
\* ns, in order, duplicates included).
C19_AddFindRetrieve ==
  \A ns \in LookupKeys :
    LET list == ListOf(opts.prefix_map, ns)
        added == Added(ns)
    IN /\ Len(list) >= Len(added)
       /\ SubSeq(list, Len(list) - Len(added) + 1, Len(list)) = added
       /\ \A p \in LookupPrefixes :
            /\ find_prefix(opts.prefix_map, ns, p) <=> Occurs(p, added)
            /\ Occurs(p, list)
                 => retrieve_preferred_prefix(opts.prefix_map, ns, p) = Some(p)
            /\ (~Occurs(p, list) /\ added # <<>>)
                 => retrieve_preferred_prefix(opts.prefix_map, ns, p)
                      = Some(added[Len(added)])

\* the candidate list of a key: what the constructor put there (xml for the
\* XML namespace in a map made by default, nothing otherwise) followed by the
\* prefixes added for the key, in order
Candidates(ns) == ListOf(MapAt(1), ns) \o Added(ns)

\* C19, amended: the list of ns is the constructor's entry, if any, followed
\* by every prefix added for ns, in order and with duplicates, whatever was
\* added for other keys; find_prefix(ns, p) is true iff p occurs in it;
\* retrieve_preferred_prefix(ns, preferred) returns preferred when it occurs
\* anywhere in it, otherwise its last entry, and None when it is empty.
C19_AddFindRetrieveSeeded ==
  \A ns \in LookupKeys :
    LET list == Candidates(ns)
    IN /\ ListOf(opts.prefix_map, ns) = list
       /\ ns \in DOMAIN opts.prefix_map <=> list # <<>>
       /\ \A p \in LookupPrefixes :
            /\ find_prefix(opts.prefix_map, ns, p) <=> Occurs(p, list)
            /\ retrieve_preferred_prefix(opts.prefix_map, ns, p)
                 = IF Occurs(p, list) THEN Some(p)
                   ELSE IF list # <<>> THEN Some(list[Len(list)])
                   ELSE None

\* C19 witness: p, q, p were added for namespace X, so that the preferred
\* prefix p is found before the last entry and the pair (X, p) is there twice.
C19_Witness ==
  /\ Len(calls) = 3
  /\ \A k \in 1..3 : calls[k].op = "add" /\ calls[k].input.ns = Some(NS_X)
  /\ Added(Some(NS_X)) = <<STR_p, STR_q, STR_p>>
  /\ opts.prefix_map[Some(NS_X)] = <<STR_p, STR_q, STR_p>>

\* every key of the map has at least one candidate
NonEmptyLists(map) == \A ns \in DOMAIN map : Len(map[ns]) >= 1

\* C20: every key of the configured prefix map, before and after every
\* call, and every key of the scratch copy a start_elem worked on, has a
\* candidate list with at least one entry.
C20_NonEmptyLists ==
  /\ NonEmptyLists(opts.prefix_map)
  /\ \A k \in 1..Len(calls) :
       /\ NonEmptyLists(calls[k].prefix_map)
       /\ IsStart(calls[k]) => NonEmptyLists(calls[k].res.map)

\* C20 witness: a start_elem whose scratch copy got a key the configured map
\* does not have.
C20_Witness ==
  \E k \in 1..Len(calls) :
    /\ IsStart(calls[k]) /\ calls[k].res.ok
    /\ DOMAIN calls[k].res.map # DOMAIN calls[k].prefix_map

\* the prefix maps used during the run: the configured map before and after
\* every call and the scratch copy of every start_elem
MapsUsed ==
  {opts.prefix_map}
  \cup { calls[k].prefix_map : k \in 1..Len(calls) }
  \cup { calls[k].res.map : k \in {j \in 1..Len(calls) : IsStart(calls[j])} }

\* C21: in a run that starts from the default map, in every map used the
\* XML namespace has the candidate xml and no other candidate, and no other
\* key has the candidate xml.
C21_XmlBindingFixed ==
  MapAt(1) = NamespacePrefixMap_default =>
    \A map \in MapsUsed :
      /\ find_prefix(map, Some(NS_XML), STR_xml)
      /\ ListOf(map, Some(NS_XML)) = <<STR_xml>>
      /\ \A ns \in DOMAIN map :
           ns # Some(NS_XML) => ~find_prefix(map, ns, STR_xml)

\* two attributes of the sequence have the same (namespace, local name) pair
RepeatedPair(attrs) ==
  \E i, j \in 1..Len(attrs) :
    i < j /\ attrs[i].ns = attrs[j].ns /\ attrs[i].local = attrs[j].local

\* the options of the serializer before the call c
OptsBefore(c) ==
  [opts EXCEPT !.prefix_map = c.prefix_map, !.prefix_index = c.prefix_index]

\* start_elem with the name of the call c succeeds without attributes and
\* with each attribute of c as the only attribute
EachAttrAccepted(c) ==
  /\ start_elem_call(OptsBefore(c), FALSE, c.input.name, <<>>,
                     c.input.leaf_node).ok
  /\ \A i \in 1..Len(c.input.attrs) :
       start_elem_call(OptsBefore(c), FALSE, c.input.name,
                       <<c.input.attrs[i]>>, c.input.leaf_node).ok

\* C22: when well-formedness is required, a start_elem whose attributes hold
\* the same (namespace, local name) pair twice returns an error and pushes no
\* frame; a start_elem whose attributes all differ in namespace or local
\* name, the element accepted without attributes and with each of them on
\* its own, is not rejected.
C22_DuplicateAttribute ==
  \A k \in 1..Len(calls) :
    (IsStart(calls[k]) /\ opts.require_well_formed)
    => /\ RepeatedPair(calls[k].input.attrs)
            => /\ ~calls[k].res.ok
               /\ is_none(calls[k].res.pushed)
               /\ StackAt(k + 1) = StackAt(k)
       /\ (~RepeatedPair(calls[k].input.attrs) /\ EachAttrAccepted(calls[k]))
            => calls[k].res.ok

\* C22 witness: the pair (xmlns namespace, p) twice, with different values,
\* the first occurrence skipped because it redeclares the XML namespace; and
\* in another call of the same kind two attributes named l in two namespaces
\* are accepted.
C22_Witness ==
  /\ opts.require_well_formed
  /\ Len(calls) = 1 /\ IsStart(calls[1])
  /\ calls[1].input.attrs = <<A_uri_redeclare_xml, A_uri_decl_p>>
  /\ valid_local_name(calls[1].input.name.local)
  /\ start_elem_call(OptsBefore(calls[1]), FALSE, calls[1].input.name,
                     <<A_uri_redeclare_xml>>, FALSE).ok
  /\ start_elem_call(OptsBefore(calls[1]), FALSE, calls[1].input.name,
                     <<A_Yl, A_Xl>>, FALSE).ok
  /\ ~calls[1].res.ok

\* the scratch copy of the prefix map of the call c once the declarations
\* among its attributes are recorded (what line 522 to 527 hand to the match)
ScratchMap(c) ==
  recording_namespace_information(
    c.prefix_map, LocalPrefixMap_new, c.input.attrs).map

\* the case of the call c in which the inherited namespace differs from the
\* element's namespace
UnequalCase(c) == ~opt_eq(opts.context_namespace, c.input.name.ns)

\* the bytes before the first ":" of a text that holds one
before_colon(bytes) ==
  SubSeq(bytes, 1, (CHOOSE i \in 1..Len(bytes) :
                      bytes[i] = 58 /\ \A j \in 1..(i - 1) : bytes[j] # 58) - 1)

\* the open tag of the call c declares xmlns:P="ns" for the element's
\* namespace and the pair is recorded in the scratch map
DeclaredInline(c, P) ==
  /\ \E i \in 1..Len(ListOf(c.res.map, Some(c.input.name.ns))) :
       as_bytes(ListOf(c.res.map, Some(c.input.name.ns))[i]) = P
  /\ c.res.decl_out
       = <<32, 120, 109, 108, 110, 115, 58>> \o P \o <<61, 34>>
         \o serialize_attr_value(opts.require_well_formed, c.input.name.ns).out
         \o <<34>>

\* retrieve_preferred_prefix on the scratch map for the element's own
\* namespace, the element's prefix or "" as preference, yields P
RetrievedForOwnNamespace(c, P) ==
  \E r \in {retrieve_preferred_prefix(ScratchMap(c), Some(c.input.name.ns),
                                      map_opt_atom(c.input.name.prefix))} :
    is_some(r) /\ as_bytes(r[1]) = P

\* C23: whenever start_elem, the inherited namespace differing from the
\* element's, writes the element name with a prefix P, then P is what
\* retrieve_preferred_prefix yields on the scratch map for the element's
\* namespace, or xmlns:P="ns" is declared in the same open tag and (ns, P)
\* is recorded in the scratch map.
C23_PrefixDenotesNamespace ==
  \A k \in 1..Len(calls) :
    ( /\ IsStart(calls[k])
      /\ UnequalCase(calls[k])
      /\ contains_char(calls[k].res.name_out, 58) )
    => \/ RetrievedForOwnNamespace(calls[k], before_colon(calls[k].res.name_out))
       \/ DeclaredInline(calls[k], before_colon(calls[k].res.name_out))

\* the map lookup of the unequal case (line 564) for the call c
LookedUp(c) ==
  retrieve_preferred_prefix(ScratchMap(c), opts.context_namespace,
                            map_opt_atom(c.input.name.prefix))

\* C24: when, the inherited namespace differing from the element's, the map
\* lookup yields a prefix, the open tag holds the qualified name once, as
\* prefix:local, with no xmlns declaration written for the element name;
\* and an element without attributes leaves the scratch map without a new
\* binding and generates no prefix.
C24_OneAlternative ==
  \A k \in 1..Len(calls) :
    ( /\ IsStart(calls[k])
      /\ UnequalCase(calls[k])
      /\ opts.require_well_formed => valid_local_name(calls[k].input.name.local)
      /\ ~eq_str(calls[k].input.name.prefix, STR_xmlns)
      /\ is_some(LookedUp(calls[k])) )
    => /\ calls[k].res.name_out
            = as_bytes(LookedUp(calls[k])[1] \o <<58>> \o calls[k].input.name.local)
       /\ calls[k].res.decl_out = <<>>
       /\ calls[k].input.attrs = <<>>
            => /\ calls[k].res.map = ScratchMap(calls[k])
               /\ Generated(calls[k]) = <<>>
               /\ IndexAt(k + 1) = IndexAt(k)

\* the prefix the scratch map of the call c yields for the namespace of attr,
\* attr's own prefix or "" as preference
AttrLookedUp(c, attr) ==
  retrieve_preferred_prefix(ScratchMap(c), Some(attr.ns), map_opt_atom(attr.prefix))

\* attr is in a namespace that is neither empty nor the xmlns namespace
Namespaced(attr) == attr.ns # NS_EMPTY /\ attr.ns # NS_XMLNS

\* the bytes the attribute pass of the successful call c wrote: what lies
\* between the element name with its declaration and the end of the tag
AttrsOut(c) ==
  SubSeq(c.res.out,
         2 + Len(c.res.name_out) + Len(c.res.decl_out),
         Len(c.res.out) - Len(tag_end(c.input.name, c.input.leaf_node)))

\* C25: in a successful start_elem of an element without a prefix, no more
\* prefixes are generated than there are attributes in a non-empty
\* namespace other than the xmlns namespace for which the map yields no
\* prefix; and a single attribute for whose namespace the map yields the
\* prefix P is written as P:local="value", nothing else, the prefix index
\* unchanged.
C25_AttributePrefix ==
  \A k \in 1..Len(calls) :
    ( /\ IsStart(calls[k])
      /\ calls[k].res.ok
      /\ is_none(calls[k].input.name.prefix) )
    => /\ Len(Generated(calls[k]))
            <= Cardinality({ i \in 1..Len(calls[k].input.attrs) :
                   /\ Namespaced(calls[k].input.attrs[i])
                   /\ is_none(AttrLookedUp(calls[k], calls[k].input.attrs[i])) })
       /\ \A attr \in { calls[k].input.attrs[i] : i \in 1..Len(calls[k].input.attrs) } :
            ( /\ calls[k].input.attrs = <<attr>>
              /\ Namespaced(attr)
              /\ is_some(AttrLookedUp(calls[k], attr)) )
            => /\ AttrsOut(calls[k])
                    = <<32>> \o as_bytes(AttrLookedUp(calls[k], attr)[1]) \o <<58>>
                      \o as_bytes(attr.local) \o <<61, 34>>
                      \o serialize_attr_value(opts.require_well_formed, attr.value).out
                      \o <<34>>
               /\ IndexAt(k + 1) = IndexAt(k)

\* the attribute local name the specification rejects: one that is no valid
\* element local name, or xmlns in the empty namespace
RejectedAttrName(attr) ==
  \/ ~valid_local_name(attr.local)
  \/ attr.local = STR_xmlns /\ attr.ns = NS_EMPTY

\* C26: when well-formedness is required, a start_elem with an attribute
\* whose local name would not be accepted as an element local name, or is
\* xmlns in the empty namespace, returns an error; and a single attribute in
\* the empty namespace with any other local name and a value of XML
\* characters is accepted on an element that is accepted without it.
C26_AttributeLocalName ==
  \A k \in 1..Len(calls) :
    (IsStart(calls[k]) /\ opts.require_well_formed)
    => /\ (\E i \in 1..Len(calls[k].input.attrs) :
              RejectedAttrName(calls[k].input.attrs[i]))
            => ~calls[k].res.ok
       /\ \A attr \in { calls[k].input.attrs[i] : i \in 1..Len(calls[k].input.attrs) } :
            ( /\ calls[k].input.attrs = <<attr>>
              /\ attr.ns = NS_EMPTY
              /\ ~RejectedAttrName(attr)
              /\ matches_rules_xml_char(attr.value)
              /\ start_elem_call(OptsBefore(calls[k]), FALSE, calls[k].input.name,
                                 <<>>, calls[k].input.leaf_node).ok )
            => calls[k].res.ok

\* what recording_namespace_information returns for the call c
Recorded(c) ==
  recording_namespace_information(c.prefix_map, LocalPrefixMap_new, c.input.attrs)

\* the key under which a declaration of the value V is recorded
DeclaredKey(value) == IF value = <<>> THEN None ELSE Some(value)

\* C27: in the scan of a start_elem with a single attribute, an attribute in
\* the xmlns namespace without a prefix sets the local default namespace to
\* its value; one with a prefix, local name P and value V is recorded as
\* (V, P) in the scratch map and in the local prefix table, unless V is the
\* XML namespace or (V, P) is found in the map, and then both are left as
\* they were; an attribute in another namespace changes neither and sets no
\* local default namespace.
C27_DeclarationScan ==
  \A k \in 1..Len(calls) :
    \A attr \in { calls[k].input.attrs[i] : i \in 1..Len(calls[k].input.attrs) } :
      ( /\ IsStart(calls[k])
        /\ opts.require_well_formed => valid_local_name(calls[k].input.name.local)
        /\ calls[k].input.attrs = <<attr>> )
      => /\ (attr.ns = NS_XMLNS /\ is_none(attr.prefix))
              => /\ Recorded(calls[k]).default_namespace_attr_value = Some(attr.value)
                 /\ Recorded(calls[k]).map = calls[k].prefix_map
                 /\ Recorded(calls[k]).local_prefixes_map = LocalPrefixMap_new
         /\ ( /\ attr.ns = NS_XMLNS /\ is_some(attr.prefix)
              /\ attr.value # NS_XML
              /\ ~find_prefix(calls[k].prefix_map, DeclaredKey(attr.value), attr.local) )
              => /\ find_prefix(Recorded(calls[k]).map, DeclaredKey(attr.value), attr.local)
                 /\ get(Recorded(calls[k]).local_prefixes_map, attr.local) = Some(attr.value)
         /\ ( /\ attr.ns = NS_XMLNS /\ is_some(attr.prefix)
              /\ \/ attr.value = NS_XML
                 \/ find_prefix(calls[k].prefix_map, DeclaredKey(attr.value), attr.local) )
              => /\ Recorded(calls[k]).map = calls[k].prefix_map
                 /\ Recorded(calls[k]).local_prefixes_map = LocalPrefixMap_new
         /\ attr.ns # NS_XMLNS
              => /\ Recorded(calls[k]).map = calls[k].prefix_map
                 /\ Recorded(calls[k]).local_prefixes_map = LocalPrefixMap_new
                 /\ Recorded(calls[k]).default_namespace_attr_value = None

\* C28: every start_elem that returns Ok wrote "<" and then a non-empty
\* qualified name that ends with the element's local name, and the frame it
\* pushed holds that same non-empty text.
C28_NonEmptyName ==
  \A k \in 1..Len(calls) :
    (IsStart(calls[k]) /\ calls[k].res.ok)
    => /\ calls[k].res.name_out # <<>>
       /\ ends_with(calls[k].res.name_out, as_bytes(calls[k].input.name.local))
       /\ SubSeq(written(calls[k]), 1, 1 + Len(calls[k].res.name_out))
            = <<60>> \o calls[k].res.name_out
       /\ is_some(calls[k].res.pushed)
       /\ calls[k].res.pushed[1].qualified_name # <<>>
       /\ as_bytes(calls[k].res.pushed[1].qualified_name) = calls[k].res.name_out

====
